---- MODULE Spec2Model ----
(***************************************************************************)
(* CodeProof: the snapshot engine (aggregator, snapshot builder, hash      *)
(* chain cursor) and the SQLite-backed chain store.                        *)
(*                                                                         *)
(* Modelling conventions                                                   *)
(*  - File content is a string. A digest is a sequence, and the empty      *)
(*    string that seeds the chain is the empty sequence << >>.             *)
(*  - SHA-256 is an injective wrapper (no collisions); the concatenation   *)
(*    prev + content_hash + timestamp is the triple of its parts, which    *)
(*    is injective too because hex digests and ISO timestamps have a       *)
(*    fixed width.                                                         *)
(*  - A timestamp is the clock reading in ms; toISOString() of it is a     *)
(*    fixed-width text whose lexicographic order is the numeric order, so  *)
(*    SQL's ORDER BY timestamp compares the readings.                      *)
(*  - JavaScript runs handlers to completion: every handler is one action. *)
(***************************************************************************)
EXTENDS Integers, Sequences, FiniteSets, TLC

\* ------------------------------------------------------------------ bounds
MaxClock == 1
MaxSnapshots == 2
MaxSessions == 1
MaxPending == 2
MaxEdits == 3
MaxRows == 3
MaxFlags == 2
MaxReplay == 3
MaxRecordings == 2

\* ------------------------------------------------------- program constants
DEFAULT_PASTE_CHAR_THRESHOLD == 50
DELETE_CHAR_THRESHOLD == 30
COALESCE_WINDOW_MS == 500
LARGE_PASTE_THRESHOLD == 30
FULLY_FORMED_LINE_THRESHOLD == 50
LONG_GAP_MS == 7200000
POST_GAP_WINDOW_MS == 1800000
POST_GAP_LINE_THRESHOLD == 30
NO_DEBUGGING_LINE_THRESHOLD == 100
UNUSUAL_SPEED_CPM == 200
SPEED_WINDOW_MS == 300000
RAPID_COMPLETION_LINE_THRESHOLD == 200
RAPID_COMPLETION_TIME_MS == 3600000

CHANGE_TYPE_PRIORITY == [typing |-> 0, delete |-> 1, refactor |-> 2, paste |-> 3]

\* ----------------------------------------------------------------- domains
Files == {"a.ts", "b.ts"}
EmptyContent == ""
Contents == {EmptyContent, "x"}
EmptyString == << >>
NotOpen == "<not open>"
Absent == "<undefined>"

VARIABLES
    \* SnapshotEngine fields
    isRunning, isPaused, sessionId, snapshotCount, lastChainHash,
    fileContents, pendingChanges, intervalHandle, pasteThreshold,
    intervalMs, excludePatterns, configListener,
    \* environment: open documents, the latest reading of the wall clock and
    \* the codeproof settings of the workspace
    documents, clock, configured,
    \* SnapshotStorage tables, and the row of the snapshots table whose
    \* chain_hash was overwritten from outside (0: none)
    snapshots, sessions, tamperedRow,
    \* observations: the snapshots fired on onSnapshot, the trace of the
    \* processSnapshots call of the last handler (if it made one), and the
    \* edits accepted since each pending entry was created
    emitted, flushLog, editLog,
    \* flags table, the flags held by the open review panel, the number of
    \* flag ids generated so far and the chain status shown last
    flags, reviewPanel, nextFlagId, chainReport,
    \* the last run of the flag analyzer: the snapshots it was given, whether it
    \* returned or threw, and the flags it returned
    analysis,
    \* the last classification asked of a ChangeDetector directly
    classified,
    \* ReplayRecorder fields, the replay events handed to the store, and the
    \* last event the recorder accepted, whether it was coalesced, and the
    \* event each buffer entry was pushed as
    isRecording, buffer, flushHandle, replayEvents, replayLog

engineVars == <<isRunning, isPaused, sessionId, snapshotCount, lastChainHash,
                fileContents, pendingChanges, intervalHandle, pasteThreshold,
                intervalMs, excludePatterns, configListener>>
envVars == <<documents, clock, configured>>
storeVars == <<snapshots, sessions, tamperedRow>>
obsVars == <<emitted, flushLog, editLog>>
reviewVars == <<flags, reviewPanel, nextFlagId, chainReport, analysis>>
classifierVars == <<classified>>
replayVars == <<isRecording, buffer, flushHandle, replayEvents, replayLog>>
otherVars == <<reviewVars, classifierVars, replayVars>>
vars == <<engineVars, envVars, storeVars, obsVars, otherVars>>

\* ------------------------------------------------------------------ digest
Sha256(data) == <<data>>
Concat3(a, b, c) == <<a, b, c>>
ChainDigest(previousChainHash, contentHash, timestamp) ==
    Sha256(Concat3(previousChainHash, contentHash, timestamp))

\* ------------------------------------------------------------ SnapshotStorage
\* One row of the snapshots table (the columns the engine and the chain use).
SnapshotRow(timestamp, filename, contentHash, changeType, changeSize, chainHash, session) ==
    [timestamp |-> timestamp, filename |-> filename, content_hash |-> contentHash,
     change_type |-> changeType, change_size |-> changeSize,
     chain_hash |-> chainHash, session_id |-> session]

\* ORDER BY timestamp ASC over the rows in rowid (insertion) order: rows with
\* equal timestamps keep their rowid order (the timestamp index is ordered by
\* (timestamp, rowid)).
InsertByTimestamp(sorted, row) ==
    LET before == SelectSeq(sorted, LAMBDA r : r.timestamp <= row.timestamp)
        after == SelectSeq(sorted, LAMBDA r : r.timestamp > row.timestamp)
    IN before \o <<row>> \o after

RECURSIVE OrderByTimestamp(_)
OrderByTimestamp(rows) ==
    IF rows = << >> THEN << >>
    ELSE InsertByTimestamp(OrderByTimestamp(SubSeq(rows, 1, Len(rows) - 1)),
                           rows[Len(rows)])

\* verifyHashChain with a loop that stops one row early.
RECURSIVE VerifyFromSkippingLast(_, _, _)
VerifyFromSkippingLast(rows, i, previousChainHash) ==
    IF i >= Len(rows) THEN TRUE
    ELSE LET snapshot == rows[i]
             expectedHash == ChainDigest(previousChainHash, snapshot.content_hash,
                                         snapshot.timestamp)
         IN IF expectedHash # snapshot.chain_hash
            THEN FALSE
            ELSE VerifyFromSkippingLast(rows, i + 1, snapshot.chain_hash)

\* verifyHashChain that accepts the valid prefix: at a mismatch after the
\* first row it stops and reports the chain as intact.
RECURSIVE VerifyFromTruncating(_, _, _)
VerifyFromTruncating(rows, i, previousChainHash) ==
    IF i > Len(rows) THEN TRUE
    ELSE LET snapshot == rows[i]
             expectedHash == ChainDigest(previousChainHash, snapshot.content_hash,
                                         snapshot.timestamp)
         IN IF expectedHash # snapshot.chain_hash
            THEN i > 1
            ELSE VerifyFromTruncating(rows, i + 1, snapshot.chain_hash)

\* The loop of verifyHashChain from row i on, previousChainHash being the
\* chain_hash of the row before it.
RECURSIVE VerifyFrom(_, _, _)
VerifyFrom(rows, i, previousChainHash) ==
    IF i > Len(rows) THEN TRUE
    ELSE LET snapshot == rows[i]
             expectedHash == ChainDigest(previousChainHash, snapshot.content_hash,
                                         snapshot.timestamp)
         IN IF expectedHash # snapshot.chain_hash
            THEN FALSE
            ELSE VerifyFrom(rows, i + 1, snapshot.chain_hash)

verifyHashChain == VerifyFrom(OrderByTimestamp(snapshots), 1, EmptyString)

\* saveSnapshot as INSERT OR REPLACE hitting the row stored last.
saveSnapshotReplacing(rows, snapshot) ==
    IF rows = << >> THEN <<snapshot>>
    ELSE [rows EXCEPT ![Len(rows)] = snapshot]

\* saveSnapshot: INSERT INTO snapshots.
saveSnapshot(rows, snapshot) == Append(rows, snapshot)

\* createSession: a new open session row (ended_at = '').
createSession(startedAt) ==
    [id |-> Len(sessions) + 1, started_at |-> startedAt, ended_at |-> EmptyString,
     files_touched |-> {}, total_snapshots |-> 0]

\* endSession that recomputes the aggregates but leaves ended_at empty.
endSessionStatsOnly(table, rows, id, endedAt) ==
    LET mine == SelectSeq(rows, LAMBDA r : r.session_id = id)
    IN [k \in DOMAIN table |->
          IF table[k].id = id
          THEN [table[k] EXCEPT !.files_touched = {mine[j].filename : j \in DOMAIN mine},
                                !.total_snapshots = Len(mine)]
          ELSE table[k]]

\* endSession: set ended_at, then recompute the aggregates from the stored rows.
endSession(table, rows, id, endedAt) ==
    LET mine == SelectSeq(rows, LAMBDA r : r.session_id = id)
    IN [k \in DOMAIN table |->
          IF table[k].id = id
          THEN [table[k] EXCEPT !.ended_at = <<endedAt>>,
                                !.files_touched = {mine[j].filename : j \in DOMAIN mine},
                                !.total_snapshots = Len(mine)]
          ELSE table[k]]

\* One row of the flags table: the flag's id, two of the columns the analyzer
\* fills, and the review layer.
FlagRow(id, category, timestamp, studentContext, status) ==
    [id |-> id, category |-> category, timestamp |-> timestamp,
     studentContext |-> studentContext, status |-> status]

\* saveFlag as a plain INSERT that keeps the row already stored under the id.
saveFlagInserting(table, flag) == Append(table, flag)

\* saveFlag: INSERT OR REPLACE INTO flags, id being the primary key: a row with
\* the same id is deleted and the new row inserted.
saveFlag(table, flag) ==
    Append(SelectSeq(table, LAMBDA row : row.id # flag.id), flag)

\* getFlags(): SELECT * FROM flags ORDER BY timestamp ASC.
getFlags(table) == OrderByTimestamp(table)

\* A query option is either left out or a value: the set of the values given.
\* An option given as '' counts as left out (the code tests its truthiness).
NotGiven == {}

Given(value) == {value}

SessionIds == {1, 2}

SnapshotQueryOptions ==
    [filename : {NotGiven} \cup {Given(f) : f \in Files},
     after : {NotGiven} \cup {Given(t) : t \in 0..MaxClock},
     before : {NotGiven} \cup {Given(t) : t \in 0..MaxClock},
     sessionId : {NotGiven} \cup {Given(id) : id \in SessionIds}]

\* The WHERE clause getSnapshots builds: one condition for every option given.
WhereClause(row, options) ==
    /\ \A filename \in options.filename : row.filename = filename
    /\ \A after \in options.after : row.timestamp > after
    /\ \A before \in options.before : row.timestamp < before
    /\ \A id \in options.sessionId : row.session_id = id

\* getSnapshots whose after bound lets the bound itself through.
getSnapshotsAfterInclusive(rows, options) ==
    OrderByTimestamp(SelectSeq(rows, LAMBDA row :
        /\ \A filename \in options.filename : row.filename = filename
        /\ \A after \in options.after : row.timestamp >= after
        /\ \A before \in options.before : row.timestamp < before
        /\ \A id \in options.sessionId : row.session_id = id))

\* getSnapshots: SELECT * FROM snapshots WHERE ... ORDER BY timestamp ASC.
getSnapshots(rows, options) ==
    OrderByTimestamp(SelectSeq(rows, LAMBDA row : WhereClause(row, options)))

\* ------------------------------------------------------------- ChangeDetector
\* A content change is a range replacement, known by the length of the inserted
\* text and the length of the replaced range.
Change(textLength, rangeLength) == [text |-> textLength, rangeLength |-> rangeLength]

\* detect testing the size of the first range before the number of ranges.
detectSizeFirst(changes, threshold) ==
    IF Len(changes) = 0 THEN "typing"
    ELSE IF changes[1].text >= threshold THEN "paste"
    ELSE IF Len(changes) > 1 THEN "refactor"
    ELSE IF changes[1].rangeLength >= DELETE_CHAR_THRESHOLD /\ changes[1].text = 0
    THEN "delete"
    ELSE "typing"

\* detect: the classification of one edit event under a paste threshold.
detect(changes, threshold) ==
    IF Len(changes) = 0 THEN "typing"
    ELSE IF Len(changes) > 1 THEN "refactor"
    ELSE LET charsAdded == changes[1].text
             charsRemoved == changes[1].rangeLength
         IN IF charsAdded >= threshold THEN "paste"
            ELSE IF charsRemoved >= DELETE_CHAR_THRESHOLD /\ charsAdded = 0 THEN "delete"
            ELSE "typing"

\* setPasteThreshold(threshold), called on a detector directly.
SetPasteThreshold(threshold) ==
    /\ pasteThreshold' = threshold
    /\ UNCHANGED <<isRunning, isPaused, sessionId, snapshotCount, lastChainHash,
                   fileContents, pendingChanges, intervalHandle, intervalMs,
                   excludePatterns, configListener>>
    /\ UNCHANGED <<envVars, storeVars, obsVars, otherVars>>

\* detect(event), called on a detector directly; the call, the threshold it
\* was made under and its result are kept.
Detect(changes) ==
    /\ classified' = [changes |-> changes, threshold |-> pasteThreshold,
                      changeType |-> detect(changes, pasteThreshold)]
    /\ UNCHANGED <<engineVars, envVars, storeVars, obsVars, reviewVars, replayVars>>

\* --------------------------------------------------------------- Aggregator
RECURSIVE SumText(_)
SumText(changes) ==
    IF changes = << >> THEN 0 ELSE changes[1].text + SumText(Tail(changes))

RECURSIVE SumRangeLength(_)
SumRangeLength(changes) ==
    IF changes = << >> THEN 0 ELSE changes[1].rangeLength + SumRangeLength(Tail(changes))

PendingIndex(pending, filePath) ==
    {i \in DOMAIN pending : pending[i].filePath = filePath}

PendingFiles(pending) == {pending[i].filePath : i \in DOMAIN pending}

\* Aggregation in which the latest edit decides the change type.
MergeChangeTypeLastWins(existingType, changeType) == changeType

\* The higher-priority change type of an existing entry and a new edit.
MergeChangeType(existingType, changeType) ==
    IF CHANGE_TYPE_PRIORITY[changeType] > CHANGE_TYPE_PRIORITY[existingType]
    THEN changeType
    ELSE existingType

\* pendingChanges after one accepted edit: a Map keeps its keys in insertion
\* order, so a new key goes last and an existing key keeps its place.
Accumulate(pending, filePath, changeType, charsAdded, charsRemoved) ==
    IF PendingIndex(pending, filePath) # {}
    THEN [i \in DOMAIN pending |->
            IF pending[i].filePath = filePath
            THEN [pending[i] EXCEPT
                    !.changeType = MergeChangeType(pending[i].changeType, changeType),
                    !.charsAdded = pending[i].charsAdded + charsAdded,
                    !.charsRemoved = pending[i].charsRemoved + charsRemoved]
            ELSE pending[i]]
    ELSE Append(pending, [filePath |-> filePath, changeType |-> changeType,
                          charsAdded |-> charsAdded, charsRemoved |-> charsRemoved])

\* ----------------------------------------------------------- Snapshot builder
\* What one emitSnapshot call can be seen to change.
Observed(st, filePath) ==
    [lastChainHash |-> st.lastChainHash, snapshotCount |-> st.snapshotCount,
     baseline |-> st.fileContents[filePath], stored |-> Len(st.snapshots),
     fired |-> Len(st.emitted)]

PreviousContent(contents, filePath) ==
    IF contents[filePath] = Absent THEN EmptyContent ELSE contents[filePath]

\* One entry of the trace of a flush: the file, how emitSnapshot left, whether
\* the live text equalled the recorded content, and what the call changed.
Logged(before, filePath, outcome, after) ==
    [after EXCEPT !.log = Append(before.log,
        [filePath |-> filePath, outcome |-> outcome,
         contentSame |-> documents[filePath] =
                            PreviousContent(before.fileContents, filePath),
         cursorMoved |-> Observed(after, filePath).lastChainHash
                            # Observed(before, filePath).lastChainHash,
         changed |-> Observed(after, filePath) # Observed(before, filePath)])]

\* emitSnapshot that leaves the cursor where it was.
EmitUpdateStaleCursor(st, filePath, pending, currentContent, input) ==
    LET contentHash == Sha256(currentContent)
        timestamp == st.now
        chainHash == ChainDigest(st.lastChainHash, contentHash, timestamp)
        snapshot == SnapshotRow(timestamp, filePath, contentHash, pending.changeType,
                                pending.charsAdded + pending.charsRemoved,
                                chainHash, sessionId)
    IN [st EXCEPT !.fileContents = [st.fileContents EXCEPT ![filePath] = currentContent],
                  !.snapshotCount = st.snapshotCount + 1,
                  !.snapshots = IF filePath \in input.saveThrows
                                THEN st.snapshots
                                ELSE saveSnapshot(st.snapshots, snapshot),
                  !.emitted = Append(st.emitted, snapshot),
                  !.clock = timestamp,
                  !.now = IF timestamp + input.elapsed > MaxClock
                          THEN MaxClock ELSE timestamp + input.elapsed]

\* The state after the "Update state", "Persist to storage" and fire steps of
\* emitSnapshot. A throwing saveSnapshot is caught and logged there.
EmitUpdate(st, filePath, pending, currentContent, input) ==
    LET contentHash == Sha256(currentContent)
        timestamp == st.now
        chainHash == ChainDigest(st.lastChainHash, contentHash, timestamp)
        snapshot == SnapshotRow(timestamp, filePath, contentHash, pending.changeType,
                                pending.charsAdded + pending.charsRemoved,
                                chainHash, sessionId)
    IN [st EXCEPT !.lastChainHash = chainHash,
                  !.fileContents = [st.fileContents EXCEPT ![filePath] = currentContent],
                  !.snapshotCount = st.snapshotCount + 1,
                  !.snapshots = IF filePath \in input.saveThrows
                                THEN st.snapshots
                                ELSE saveSnapshot(st.snapshots, snapshot),
                  !.emitted = Append(st.emitted, snapshot),
                  !.clock = timestamp,
                  !.now = IF timestamp + input.elapsed > MaxClock
                          THEN MaxClock ELSE timestamp + input.elapsed]

\* emitSnapshot without the "content hasn't actually changed" return.
emitSnapshotUnchecked(st, pending, input) ==
    LET filePath == pending.filePath
        document == documents[filePath]
    IN IF document = NotOpen
       THEN Logged(st, filePath, "closed", st)
       ELSE IF filePath \in input.diffThrows
       THEN Logged(st, filePath, "failed", st)
       ELSE Logged(st, filePath, "emitted",
                   EmitUpdate(st, filePath, pending, document, input))

\* emitSnapshot for one pending entry. input.diffThrows are the files whose
\* diff or hash computation throws; the exception leaves emitSnapshot before
\* any state is updated and is caught by processSnapshots.
emitSnapshot(st, pending, input) ==
    LET filePath == pending.filePath
        document == documents[filePath]
    IN IF document = NotOpen
       THEN Logged(st, filePath, "closed", st)
       ELSE LET currentContent == document
                previousContent == PreviousContent(st.fileContents, filePath)
            IN IF currentContent = previousContent
               THEN Logged(st, filePath, "unchanged", st)
               ELSE IF filePath \in input.diffThrows
               THEN Logged(st, filePath, "failed", st)
               ELSE Logged(st, filePath, "emitted",
                           EmitUpdate(st, filePath, pending, currentContent, input))

\* processSnapshots without the try/catch around emitSnapshot: the first
\* exception ends the loop.
RECURSIVE ProcessLoopAborting(_, _, _, _)
ProcessLoopAborting(st, pending, i, input) ==
    IF i > Len(pending) THEN st
    ELSE LET next == emitSnapshot(st, pending[i], input)
         IN IF next.log[Len(next.log)].outcome = "failed"
            THEN next
            ELSE ProcessLoopAborting(next, pending, i + 1, input)

\* The for-loop of processSnapshots over the pending Map, from entry i on.
RECURSIVE ProcessLoop(_, _, _, _)
ProcessLoop(st, pending, i, input) ==
    IF i > Len(pending) THEN st
    ELSE ProcessLoop(emitSnapshot(st, pending[i], input), pending, i + 1, input)

\* The files a flush is due to record: a pending entry, an open document and
\* live content that differs from the baseline.
DirtyFiles ==
    {f \in PendingFiles(pendingChanges) :
        /\ documents[f] # NotOpen
        /\ documents[f] # PreviousContent(fileContents, f)}

\* processSnapshots that flushes while paused too.
FlushSkippedIgnoringPause == Len(pendingChanges) = 0

\* The early return of processSnapshots.
FlushSkipped == isPaused \/ Len(pendingChanges) = 0

\* processSnapshots that keeps the pending entries for which no snapshot was
\* emitted.
processSnapshotsKeepingUnemitted(caller, input) ==
    LET st == [lastChainHash |-> lastChainHash, fileContents |-> fileContents,
               snapshotCount |-> snapshotCount, snapshots |-> snapshots,
               emitted |-> emitted, clock |-> clock, now |-> input.now,
               log |-> << >>]
        skipped == FlushSkipped
        out == IF skipped THEN st ELSE ProcessLoop(st, pendingChanges, 1, input)
    IN [lastChainHash |-> out.lastChainHash, fileContents |-> out.fileContents,
        snapshotCount |-> out.snapshotCount, snapshots |-> out.snapshots,
        emitted |-> out.emitted, clock |-> out.clock,
        pendingChanges |->
            IF skipped THEN pendingChanges
            ELSE SelectSeq(pendingChanges, LAMBDA pending :
                     \A k \in DOMAIN out.log :
                         out.log[k].filePath = pending.filePath
                             => out.log[k].outcome # "emitted"),
        editLog |->
            IF skipped THEN editLog
            ELSE [f \in Files |->
                    IF \E k \in DOMAIN out.log :
                           out.log[k].filePath = f /\ out.log[k].outcome = "emitted"
                    THEN << >> ELSE editLog[f]],
        flushLog |-> [caller |-> caller, skipped |-> skipped, dirty |-> DirtyFiles,
                      steps |-> out.log]]

\* processSnapshots, called by the interval timer or by stop: the engine, store
\* and clock values it leaves, with the trace of the call.
processSnapshots(caller, input) ==
    LET st == [lastChainHash |-> lastChainHash, fileContents |-> fileContents,
               snapshotCount |-> snapshotCount, snapshots |-> snapshots,
               emitted |-> emitted, clock |-> clock, now |-> input.now,
               log |-> << >>]
        skipped == FlushSkipped
        out == IF skipped THEN st ELSE ProcessLoop(st, pendingChanges, 1, input)
    IN [lastChainHash |-> out.lastChainHash, fileContents |-> out.fileContents,
        snapshotCount |-> out.snapshotCount, snapshots |-> out.snapshots,
        emitted |-> out.emitted, clock |-> out.clock,
        pendingChanges |-> IF skipped THEN pendingChanges ELSE << >>,
        editLog |-> IF skipped THEN editLog ELSE [f \in Files |-> << >>],
        flushLog |-> [caller |-> caller, skipped |-> skipped, dirty |-> DirtyFiles,
                      steps |-> out.log]]

\* What a flush meets: the files whose diff or hash throws, the files whose
\* INSERT throws, what new Date() reads at the first emission and the
\* milliseconds that pass from one emission to the next. The variable clock
\* holds the latest reading that was taken.
FlushInputs ==
    {input \in [diffThrows : SUBSET DirtyFiles, saveThrows : SUBSET DirtyFiles,
                now : 0..MaxClock, elapsed : {0, 1}] :
        /\ input.diffThrows \cap input.saveThrows = {}
        /\ (isPaused \/ Cardinality(DirtyFiles) < 2) => input.elapsed = 0
        /\ (isPaused \/ DirtyFiles = {}) => input.now = clock}

\* A flush in which nothing throws and the wall clock has not been set back.
CleanInputs ==
    {input \in FlushInputs :
        input.diffThrows = {} /\ input.saveThrows = {} /\ input.now >= clock}


\* -------------------------------------------------------------------- Init
\* The settings ConfigManager.getConfig returns when none is set; the exclude
\* patterns match none of the files followed here.
DEFAULT_SNAPSHOT_INTERVAL == 30

DefaultSettings ==
    [pasteThreshold |-> DEFAULT_PASTE_CHAR_THRESHOLD,
     snapshotInterval |-> DEFAULT_SNAPSHOT_INTERVAL,
     excludePatterns |-> {}]

NoReviewPanel == [open |-> FALSE, flags |-> << >>]
NoAnalysis == [snapshots |-> << >>, outcome |-> "none", flags |-> << >>]
NoDetection == [changes |-> << >>, threshold |-> 0, changeType |-> "none"]

NoReplay == [event |-> << >>, merged |-> FALSE, recorded |-> << >>]

NoFlush ==
    [caller |-> "none", skipped |-> TRUE, dirty |-> {}, steps |-> << >>]

Init ==
    /\ isRunning = FALSE
    /\ isPaused = FALSE
    /\ sessionId = 0
    /\ snapshotCount = 0
    /\ lastChainHash = EmptyString
    /\ fileContents = [f \in Files |-> Absent]
    /\ pendingChanges = << >>
    /\ intervalHandle = FALSE
    /\ configured = DefaultSettings
    /\ pasteThreshold = configured.pasteThreshold
    /\ intervalMs = configured.snapshotInterval * 1000
    /\ excludePatterns = configured.excludePatterns
    /\ configListener = TRUE
    /\ documents = [f \in Files |-> EmptyContent]
    /\ clock = 0
    /\ snapshots = << >>
    /\ sessions = << >>
    /\ tamperedRow = 0
    /\ emitted = << >>
    /\ flushLog = NoFlush
    /\ editLog = [f \in Files |-> << >>]
    /\ flags = << >>
    /\ reviewPanel = NoReviewPanel
    /\ nextFlagId = 0
    /\ chainReport = "none"
    /\ analysis = NoAnalysis
    /\ classified = NoDetection
    /\ isRecording = FALSE
    /\ buffer = << >>
    /\ flushHandle = FALSE
    /\ replayEvents = << >>
    /\ replayLog = NoReplay

\* ------------------------------------------------------------ engine actions
\* start(): no effect on a running engine; otherwise a new session, a reset
\* cursor and counter, the change listener and the interval timer.
Start ==
    IF isRunning
    THEN UNCHANGED vars
    ELSE /\ isRunning' = TRUE
         /\ isPaused' = FALSE
         /\ snapshotCount' = 0
         /\ lastChainHash' = EmptyString
         /\ sessions' = Append(sessions, createSession(clock))
         /\ sessionId' = Len(sessions) + 1
         /\ intervalHandle' = TRUE
         /\ flushLog' = NoFlush
         /\ UNCHANGED <<fileContents, pendingChanges, pasteThreshold, intervalMs,
                        excludePatterns, configListener, envVars,
                        snapshots, tamperedRow, emitted, editLog, otherVars>>

\* start() when storage.createSession throws (the INSERT fails): the
\* exception leaves start after the flags, the counter and the cursor were
\* set and before the session id, the change listener and the interval timer.
StartFailing ==
    IF isRunning
    THEN UNCHANGED vars
    ELSE /\ isRunning' = TRUE
         /\ isPaused' = FALSE
         /\ snapshotCount' = 0
         /\ lastChainHash' = EmptyString
         /\ flushLog' = NoFlush
         /\ UNCHANGED <<sessionId, intervalHandle, sessions>>
         /\ UNCHANGED <<fileContents, pendingChanges, pasteThreshold, intervalMs,
                        excludePatterns, configListener, envVars,
                        snapshots, tamperedRow, emitted, editLog, otherVars>>

\* stop() that ends the session before the final flush.
StopEndingBeforeFlush(input) ==
    IF ~isRunning
    THEN UNCHANGED vars
    ELSE LET r == processSnapshots("stop", input)
         IN /\ lastChainHash' = r.lastChainHash
            /\ snapshotCount' = r.snapshotCount
            /\ snapshots' = r.snapshots
            /\ emitted' = r.emitted
            /\ clock' = r.clock
            /\ flushLog' = r.flushLog
            /\ sessions' = endSession(sessions, snapshots, sessionId, clock)
            /\ isRunning' = FALSE
            /\ isPaused' = FALSE
            /\ intervalHandle' = FALSE
            /\ fileContents' = [f \in Files |-> Absent]
            /\ pendingChanges' = << >>
            /\ editLog' = [f \in Files |-> << >>]
            /\ configListener' = FALSE
            /\ UNCHANGED <<sessionId, pasteThreshold, intervalMs, excludePatterns,
                           documents, configured, tamperedRow, otherVars>>

\* stop() that keeps the recorded baselines.
StopKeepingBaselines(input) ==
    IF ~isRunning
    THEN UNCHANGED vars
    ELSE LET r == processSnapshots("stop", input)
         IN /\ lastChainHash' = r.lastChainHash
            /\ snapshotCount' = r.snapshotCount
            /\ snapshots' = r.snapshots
            /\ emitted' = r.emitted
            /\ clock' = r.clock
            /\ flushLog' = r.flushLog
            /\ sessions' = endSession(sessions, r.snapshots, sessionId, r.clock)
            /\ isRunning' = FALSE
            /\ isPaused' = FALSE
            /\ intervalHandle' = FALSE
            /\ fileContents' = r.fileContents
            /\ pendingChanges' = << >>
            /\ editLog' = [f \in Files |-> << >>]
            /\ configListener' = FALSE
            /\ UNCHANGED <<sessionId, pasteThreshold, intervalMs, excludePatterns,
                           documents, configured, tamperedRow, otherVars>>

\* stop(): flush, end the session, release the timer and the listener, clear.
Stop(input) ==
    IF ~isRunning
    THEN UNCHANGED vars
    ELSE LET r == processSnapshots("stop", input)
         IN /\ lastChainHash' = r.lastChainHash
            /\ snapshotCount' = r.snapshotCount
            /\ snapshots' = r.snapshots
            /\ emitted' = r.emitted
            /\ clock' = r.clock
            /\ flushLog' = r.flushLog
            /\ sessions' = endSession(sessions, r.snapshots, sessionId, r.clock)
            /\ isRunning' = FALSE
            /\ isPaused' = FALSE
            /\ intervalHandle' = FALSE
            /\ fileContents' = [f \in Files |-> Absent]
            /\ pendingChanges' = << >>
            /\ editLog' = [f \in Files |-> << >>]
            /\ configListener' = FALSE
            /\ UNCHANGED <<sessionId, pasteThreshold, intervalMs, excludePatterns,
                           documents, configured, tamperedRow, otherVars>>

Pause ==
    IF ~isRunning \/ isPaused
    THEN UNCHANGED vars
    ELSE /\ isPaused' = TRUE
         /\ flushLog' = NoFlush
         /\ UNCHANGED <<isRunning, sessionId, snapshotCount, lastChainHash, fileContents,
                        pendingChanges, intervalHandle, pasteThreshold, intervalMs,
                        excludePatterns, configListener, envVars,
                        storeVars, emitted, editLog, otherVars>>

Resume ==
    IF ~isRunning \/ ~isPaused
    THEN UNCHANGED vars
    ELSE /\ isPaused' = FALSE
         /\ flushLog' = NoFlush
         /\ UNCHANGED <<isRunning, sessionId, snapshotCount, lastChainHash, fileContents,
                        pendingChanges, intervalHandle, pasteThreshold, intervalMs,
                        excludePatterns, configListener, envVars,
                        storeVars, emitted, editLog, otherVars>>

\* The interval timer fires: processSnapshots.
Tick(input) ==
    /\ intervalHandle
    /\ LET r == processSnapshots("tick", input)
       IN /\ lastChainHash' = r.lastChainHash
          /\ fileContents' = r.fileContents
          /\ snapshotCount' = r.snapshotCount
          /\ snapshots' = r.snapshots
          /\ emitted' = r.emitted
          /\ clock' = r.clock
          /\ pendingChanges' = r.pendingChanges
          /\ editLog' = r.editLog
          /\ flushLog' = r.flushLog
    /\ UNCHANGED <<isRunning, isPaused, sessionId, intervalHandle, pasteThreshold,
                   intervalMs, excludePatterns, configListener,
                   documents, configured, sessions, tamperedRow, otherVars>>

\* The exclude patterns are known by the files they match.
isExcluded(filePath) == filePath \in excludePatterns

\* handleDocumentChange that resets the baseline of the file at every edit.
handleDocumentChangeReseeding(filePath, changes) ==
    IF Len(changes) = 0 \/ isExcluded(filePath)
    THEN UNCHANGED <<fileContents, pendingChanges, editLog>>
    ELSE LET changeType == detect(changes, pasteThreshold)
             charsAdded == SumText(changes)
             charsRemoved == SumRangeLength(changes)
         IN /\ fileContents' = [fileContents EXCEPT ![filePath] = EmptyContent]
            /\ pendingChanges' = Accumulate(pendingChanges, filePath, changeType,
                                            charsAdded, charsRemoved)
            /\ editLog' = [editLog EXCEPT ![filePath] =
                             Append(@, [changeType |-> changeType,
                                        charsAdded |-> charsAdded,
                                        charsRemoved |-> charsRemoved])]

\* handleDocumentChange for an event on a file-scheme document. An event
\* without content changes or on an excluded file is dropped.
handleDocumentChange(filePath, changes) ==
    IF Len(changes) = 0 \/ isExcluded(filePath)
    THEN UNCHANGED <<fileContents, pendingChanges, editLog>>
    ELSE LET changeType == detect(changes, pasteThreshold)
             charsAdded == SumText(changes)
             charsRemoved == SumRangeLength(changes)
         IN /\ fileContents' = IF fileContents[filePath] = Absent
                               THEN [fileContents EXCEPT ![filePath] = EmptyContent]
                               ELSE fileContents
            /\ pendingChanges' = Accumulate(pendingChanges, filePath, changeType,
                                            charsAdded, charsRemoved)
            /\ editLog' = [editLog EXCEPT ![filePath] =
                             Append(@, [changeType |-> changeType,
                                        charsAdded |-> charsAdded,
                                        charsRemoved |-> charsRemoved])]

\* The editor changes an open document to newText and notifies the listener
\* the engine registered in start(). An event without content changes leaves
\* the text as it is.
DocumentChange(filePath, changes, newText) ==
    /\ documents[filePath] # NotOpen
    /\ Len(changes) = 0 => newText = documents[filePath]
    /\ documents' = [documents EXCEPT ![filePath] = newText]
    /\ IF isRunning
       THEN /\ handleDocumentChange(filePath, changes)
            /\ flushLog' = NoFlush
       ELSE UNCHANGED <<fileContents, pendingChanges, editLog, flushLog>>
    /\ UNCHANGED <<isRunning, isPaused, sessionId, snapshotCount, lastChainHash,
                   intervalHandle, pasteThreshold, intervalMs, excludePatterns,
                   configListener, clock, configured, storeVars, emitted, otherVars>>

\* handleConfigChange that leaves the detector as it was constructed.
handleConfigChangeKeepingThreshold(config) ==
    /\ intervalMs' = config.snapshotInterval * 1000
    /\ intervalHandle' = IF config.snapshotInterval * 1000 # intervalMs /\ isRunning
                         THEN TRUE ELSE intervalHandle
    /\ excludePatterns' = config.excludePatterns
    /\ pasteThreshold' = pasteThreshold

\* handleConfigChange: a changed interval is stored and, on a running engine,
\* the timer is restarted; the exclude patterns and the paste threshold of
\* the detector are replaced.
handleConfigChange(config) ==
    /\ intervalMs' = config.snapshotInterval * 1000
    /\ intervalHandle' = IF config.snapshotInterval * 1000 # intervalMs /\ isRunning
                         THEN TRUE ELSE intervalHandle
    /\ excludePatterns' = config.excludePatterns
    /\ pasteThreshold' = config.pasteThreshold

\* The user changes the codeproof settings: ConfigManager fires onConfigChange
\* with the new values, which reaches the engine while the listener its
\* constructor registered is not disposed.
ConfigChange(config) ==
    /\ configured' = config
    /\ IF configListener
       THEN handleConfigChange(config)
       ELSE UNCHANGED <<intervalMs, intervalHandle, excludePatterns, pasteThreshold>>
    /\ UNCHANGED <<isRunning, isPaused, sessionId, snapshotCount, lastChainHash,
                   fileContents, pendingChanges, configListener, documents, clock,
                   storeVars, obsVars, otherVars>>

\* startRecording: nothing while an engine runs; otherwise a new engine is
\* constructed from the current settings (its constructor registers the
\* configuration listener) and started.
StartRecording ==
    IF isRunning
    THEN UNCHANGED vars
    ELSE /\ intervalMs' = configured.snapshotInterval * 1000
         /\ excludePatterns' = configured.excludePatterns
         /\ pasteThreshold' = configured.pasteThreshold
         /\ configListener' = TRUE
         /\ fileContents' = [f \in Files |-> Absent]
         /\ pendingChanges' = << >>
         /\ editLog' = [f \in Files |-> << >>]
         /\ isRunning' = TRUE
         /\ isPaused' = FALSE
         /\ snapshotCount' = 0
         /\ lastChainHash' = EmptyString
         /\ sessions' = Append(sessions, createSession(clock))
         /\ sessionId' = Len(sessions) + 1
         /\ intervalHandle' = TRUE
         /\ flushLog' = NoFlush
         /\ UNCHANGED <<envVars, snapshots, tamperedRow, emitted, otherVars>>

\* ---------------------------------------------------------- ReplayRecorder
\* A replay change is a range replacement: where the range starts and ends,
\* the inserted text (a sequence of characters) and the replaced length.
Position(line, character) == [line |-> line, character |-> character]

ReplayChange(rangeStart, rangeEnd, text, rangeLength) ==
    [rangeStart |-> rangeStart, rangeEnd |-> rangeEnd, text |-> text,
     rangeLength |-> rangeLength]

ReplayEvent(timestamp, filename, changes) ==
    [timestamp |-> timestamp, filename |-> filename, changes |-> changes]

\* tryCoalesce without the test of the line.
tryCoalesceAnyLine(buffered, newEvent) ==
    IF buffered = << >> THEN [merged |-> FALSE, buffer |-> buffered]
    ELSE LET lastEvent == buffered[Len(buffered)]
         IN IF \/ lastEvent.filename # newEvent.filename
               \/ newEvent.timestamp - lastEvent.timestamp > COALESCE_WINDOW_MS
               \/ Len(lastEvent.changes) # 1
               \/ Len(newEvent.changes) # 1
            THEN [merged |-> FALSE, buffer |-> buffered]
            ELSE LET lastChange == lastEvent.changes[1]
                     newChange == newEvent.changes[1]
                 IN IF \/ lastChange.rangeLength # 0
                       \/ newChange.rangeLength # 0
                       \/ newChange.rangeStart.character #
                             lastChange.rangeStart.character + Len(lastChange.text)
                       \/ Len(newChange.text) # 1
                    THEN [merged |-> FALSE, buffer |-> buffered]
                    ELSE [merged |-> TRUE,
                          buffer |-> [buffered EXCEPT ![Len(buffered)].changes[1] =
                                        [lastChange EXCEPT
                                            !.text = lastChange.text \o newChange.text,
                                            !.rangeEnd = newChange.rangeEnd]]]

\* tryCoalesce that restarts the window at every merge: the buffered event
\* takes the timestamp of the merged keystroke.
tryCoalesceRestartingWindow(buffered, newEvent) ==
    IF buffered = << >> THEN [merged |-> FALSE, buffer |-> buffered]
    ELSE LET lastEvent == buffered[Len(buffered)]
         IN IF \/ lastEvent.filename # newEvent.filename
               \/ newEvent.timestamp - lastEvent.timestamp > COALESCE_WINDOW_MS
               \/ Len(lastEvent.changes) # 1
               \/ Len(newEvent.changes) # 1
            THEN [merged |-> FALSE, buffer |-> buffered]
            ELSE LET lastChange == lastEvent.changes[1]
                     newChange == newEvent.changes[1]
                 IN IF \/ lastChange.rangeLength # 0
                       \/ newChange.rangeLength # 0
                       \/ lastChange.rangeStart.line # newChange.rangeStart.line
                       \/ newChange.rangeStart.character #
                             lastChange.rangeStart.character + Len(lastChange.text)
                       \/ Len(newChange.text) # 1
                    THEN [merged |-> FALSE, buffer |-> buffered]
                    ELSE [merged |-> TRUE,
                          buffer |-> [buffered EXCEPT
                                        ![Len(buffered)].timestamp = newEvent.timestamp,
                                        ![Len(buffered)].changes[1] =
                                        [lastChange EXCEPT
                                            !.text = lastChange.text \o newChange.text,
                                            !.rangeEnd = newChange.rangeEnd]]]

\* tryCoalesce: the tests in the order of the code; on a merge the text of
\* the new change is appended to the last buffered change, whose range end
\* becomes that of the new change.
tryCoalesce(buffered, newEvent) ==
    IF buffered = << >> THEN [merged |-> FALSE, buffer |-> buffered]
    ELSE LET lastEvent == buffered[Len(buffered)]
         IN IF \/ lastEvent.filename # newEvent.filename
               \/ newEvent.timestamp - lastEvent.timestamp > COALESCE_WINDOW_MS
               \/ Len(lastEvent.changes) # 1
               \/ Len(newEvent.changes) # 1
            THEN [merged |-> FALSE, buffer |-> buffered]
            ELSE LET lastChange == lastEvent.changes[1]
                     newChange == newEvent.changes[1]
                 IN IF \/ lastChange.rangeLength # 0
                       \/ newChange.rangeLength # 0
                       \/ lastChange.rangeStart.line # newChange.rangeStart.line
                       \/ newChange.rangeStart.character #
                             lastChange.rangeStart.character + Len(lastChange.text)
                       \/ Len(newChange.text) # 1
                    THEN [merged |-> FALSE, buffer |-> buffered]
                    ELSE [merged |-> TRUE,
                          buffer |-> [buffered EXCEPT ![Len(buffered)].changes[1] =
                                        [lastChange EXCEPT
                                            !.text = lastChange.text \o newChange.text,
                                            !.rangeEnd = newChange.rangeEnd]]]

\* ReplayRecorder.start(): nothing while recording; otherwise the change
\* listener and the flush timer.
ReplayStart ==
    IF isRecording
    THEN UNCHANGED vars
    ELSE /\ isRecording' = TRUE
         /\ flushHandle' = TRUE
         /\ UNCHANGED <<buffer, replayEvents, replayLog>>
         /\ UNCHANGED <<engineVars, envVars, storeVars, obsVars, reviewVars, classifierVars>>

\* flush that hands the buffer over and keeps it.
flushKeepingBuffer ==
    IF buffer = << >>
    THEN UNCHANGED <<buffer, replayEvents, replayLog>>
    ELSE /\ buffer' = buffer
         /\ replayEvents' = replayEvents \o buffer
         /\ replayLog' = replayLog

\* flush(): the whole buffer is taken out and handed to saveReplayEvents.
flush ==
    IF buffer = << >>
    THEN UNCHANGED <<buffer, replayEvents, replayLog>>
    ELSE /\ buffer' = << >>
         /\ replayEvents' = replayEvents \o buffer
         /\ replayLog' = [replayLog EXCEPT !.recorded = << >>]

\* The flush timer fires.
ReplayFlush ==
    /\ flushHandle
    /\ flush
    /\ UNCHANGED <<isRecording, flushHandle>>
    /\ UNCHANGED <<engineVars, envVars, storeVars, obsVars, reviewVars, classifierVars>>

\* ReplayRecorder.stop(): nothing when not recording; otherwise a last flush,
\* the timer cleared and the listener disposed.
ReplayStop ==
    IF ~isRecording
    THEN UNCHANGED vars
    ELSE /\ isRecording' = FALSE
         /\ flush
         /\ flushHandle' = FALSE
         /\ UNCHANGED <<engineVars, envVars, storeVars, obsVars, reviewVars, classifierVars>>

\* handleDocumentChange of the recorder, for an event on a file-scheme
\* document that is not excluded, Date.now() reading now: an event without
\* content changes is dropped; the event is coalesced with the last buffered
\* event or pushed.
ReplayDocumentChange(filename, changes, now) ==
    /\ isRecording
    /\ clock' = now
    /\ IF Len(changes) = 0
       THEN UNCHANGED <<buffer, replayLog>>
       ELSE LET newEvent == ReplayEvent(now, filename, changes)
                coalesced == tryCoalesce(buffer, newEvent)
            IN /\ buffer' = IF coalesced.merged THEN coalesced.buffer
                            ELSE Append(buffer, newEvent)
               /\ replayLog' = [event |-> newEvent, merged |-> coalesced.merged,
                                recorded |-> IF coalesced.merged THEN replayLog.recorded
                                             ELSE Append(replayLog.recorded, newEvent)]
    /\ UNCHANGED <<isRecording, flushHandle, replayEvents>>
    /\ UNCHANGED <<engineVars, documents, configured, storeVars, obsVars, reviewVars,
                   classifierVars>>

\* ------------------------------------------------------- ReplayPlayerPanel
\* The player keeps the document as a list of lines (docLines), a line being
\* a sequence of characters; line and character numbers count from 0.
\* text.split('\n'): the pieces of a text between its newline characters.
RECURSIVE SplitLines(_)
SplitLines(text) ==
    IF \A k \in DOMAIN text : text[k] # "\n" THEN <<text>>
    ELSE LET first == CHOOSE k \in DOMAIN text :
                          text[k] = "\n" /\ \A j \in 1..(k - 1) : text[j] # "\n"
         IN <<SubSeq(text, 1, first - 1)>>
            \o SplitLines(SubSeq(text, first + 1, Len(text)))

\* applyChange: the document is padded with empty lines up to the end line;
\* the start line up to the start character, the text of the change and the
\* end line from the end character on are joined, split into lines and put in
\* place of the lines of the range.
applyChange(docLines, change) ==
    LET startLine == change.rangeStart.line
        endLine == change.rangeEnd.line
        padded == docLines \o [k \in 1..(endLine + 1 - Len(docLines)) |-> << >>]
        substring(line, from, to) ==
            SubSeq(line, from + 1, IF to < Len(line) THEN to ELSE Len(line))
        prefix == substring(padded[startLine + 1], 0, change.rangeStart.character)
        suffix == substring(padded[endLine + 1], change.rangeEnd.character,
                            Len(padded[endLine + 1]))
        newLines == SplitLines(prefix \o change.text \o suffix)
    IN SubSeq(padded, 1, startLine) \o newLines
       \o SubSeq(padded, endLine + 2, Len(padded))

\* [...event.changes].sort(...): by start position, the last position first,
\* changes at the same position in their order.
RECURSIVE SortChanges(_)
SortChanges(changes) ==
    IF changes = << >> THEN << >>
    ELSE LET last == changes[Len(changes)]
             sorted == SortChanges(SubSeq(changes, 1, Len(changes) - 1))
             Behind(c) ==
                 \/ c.rangeStart.line < last.rangeStart.line
                 \/ /\ c.rangeStart.line = last.rangeStart.line
                    /\ c.rangeStart.character < last.rangeStart.character
         IN SelectSeq(sorted, LAMBDA c : ~Behind(c)) \o <<last>>
            \o SelectSeq(sorted, Behind)

\* applyEvent: the changes of the event are applied one by one in that order.
RECURSIVE applyEvent(_, _)
applyEvent(docLines, event) ==
    LET sorted == SortChanges(event.changes)
    IN IF sorted = << >> THEN docLines
       ELSE applyEvent(applyChange(docLines, sorted[1]),
                       [event EXCEPT !.changes = Tail(sorted)])

\* seekTo: the document is rebuilt from one empty line by applying the first
\* targetIndex events.
RECURSIVE seekTo(_, _)
seekTo(events, targetIndex) ==
    IF targetIndex = 0 \/ events = << >> THEN << << >> >>
    ELSE LET reached == IF targetIndex < Len(events) THEN targetIndex ELSE Len(events)
         IN applyEvent(seekTo(events, reached - 1), events[reached])

\* -------------------------------------------------------------- environment
CloseDocument(filePath) ==
    /\ documents[filePath] # NotOpen
    /\ documents' = [documents EXCEPT ![filePath] = NotOpen]
    /\ UNCHANGED <<engineVars, clock, configured, storeVars, obsVars, otherVars>>

OpenDocument(filePath, text) ==
    /\ documents[filePath] = NotOpen
    /\ documents' = [documents EXCEPT ![filePath] = text]
    /\ UNCHANGED <<engineVars, clock, configured, storeVars, obsVars, otherVars>>

\* ------------------------------------------------------- the store directly
\* A snapshot as an engine builds it for its next emission: linked either to
\* the row stored last or, by an engine that has just been started, to the
\* empty seed.
EngineBuilt(rows) ==
    {SnapshotRow(timestamp, filename, Sha256(content), "typing", 1,
                 ChainDigest(cursor, Sha256(content), timestamp), 1) :
        timestamp \in 0..MaxClock, filename \in {"a.ts"}, content \in Contents,
        cursor \in {EmptyString} \cup
                   (IF rows = << >> THEN {} ELSE {rows[Len(rows)].chain_hash})}

\* A caller of the storage API saves a snapshot.
SaveSnapshot(snapshot) ==
    /\ snapshots' = saveSnapshot(snapshots, snapshot)
    /\ UNCHANGED <<engineVars, envVars, sessions, tamperedRow, obsVars, otherVars>>

\* The values an outsider may write into a chain_hash column: the seed, the
\* chain_hash of any row, or a digest recomputed for the row from any of them.
ForgedHashes(rows, i) ==
    LET known == {EmptyString} \cup {rows[j].chain_hash : j \in DOMAIN rows}
    IN known \cup {ChainDigest(h, rows[i].content_hash, rows[i].timestamp) : h \in known}

\* The database file is edited from outside: the chain_hash of row i is
\* replaced by a different value.
TamperChainHash(i, hash) ==
    /\ i \in DOMAIN snapshots
    /\ hash # snapshots[i].chain_hash
    /\ snapshots' = [snapshots EXCEPT ![i].chain_hash = hash]
    /\ tamperedRow' = i
    /\ UNCHANGED <<engineVars, envVars, sessions, obsVars, otherVars>>

\* ------------------------------------------------------------- flag review
\* The review states a student can give a flag, and the explanation typed in.
FlagStatuses == {"acknowledged", "dismissed", "context_added"}

NoFilters ==
    [filename |-> NotGiven, after |-> NotGiven, before |-> NotGiven,
     sessionId |-> NotGiven]

\* What FlagAnalyzer.analyze can return for a snapshot sequence: nothing for
\* an empty one, otherwise a list of flags, each with a newly generated id
\* (generateId: ids never repeat) and the timestamp of one of the snapshots.
\* Which rules raise which flags is left open here: no flag or one.
AnalyzerFlags(rows, generated) ==
    IF rows = << >> THEN {<< >>}
    ELSE {<< >>,
          <<FlagRow(generated + 1, "large_paste", rows[1].timestamp, "", "none")>>}

\* The flag stored under an id, if any.
SavedFlag(table, id) == {row \in {getFlags(table)[k] : k \in DOMAIN table} : row.id = id}

\* reviewFlags: analyse all the snapshots, take the saved review of a flag the
\* table knows by id and the defaults otherwise, and open the review panel.
ReviewFlags(rawFlags) ==
    LET all == getSnapshots(snapshots, NoFilters)
    IN IF all = << >>
       THEN UNCHANGED vars
       ELSE /\ rawFlags \in AnalyzerFlags(all, nextFlagId)
            /\ nextFlagId' = nextFlagId + Len(rawFlags)
            /\ reviewPanel' =
                  [open |-> TRUE,
                   flags |-> [k \in DOMAIN rawFlags |->
                                IF SavedFlag(flags, rawFlags[k].id) # {}
                                THEN CHOOSE row \in SavedFlag(flags, rawFlags[k].id) : TRUE
                                ELSE [rawFlags[k] EXCEPT !.studentContext = "",
                                                         !.status = "acknowledged"]]]
            /\ UNCHANGED <<engineVars, envVars, storeVars, obsVars, flags, chainReport, analysis,
                           classifierVars, replayVars>>

\* A message of the review panel. addContext, acknowledge and dismiss change
\* the flag of the panel with that id, if there is one, and save it;
\* generateFull and generateClean close the panel.
ReviewMessage(type, flagId, context) ==
    /\ reviewPanel.open
    /\ LET found == {k \in DOMAIN reviewPanel.flags : reviewPanel.flags[k].id = flagId}
       IN IF type \in {"generateFull", "generateClean"}
          THEN /\ reviewPanel' = NoReviewPanel
               /\ UNCHANGED flags
          ELSE IF found = {}
          THEN UNCHANGED <<reviewPanel, flags>>
          ELSE LET k == CHOOSE i \in found : \A j \in found : i <= j
                   flag == reviewPanel.flags[k]
                   reviewed ==
                       IF type = "addContext"
                       THEN [flag EXCEPT !.studentContext = context,
                                         !.status = "context_added"]
                       ELSE IF type = "acknowledge"
                       THEN [flag EXCEPT !.status = "acknowledged"]
                       ELSE [flag EXCEPT !.status = "dismissed"]
               IN /\ reviewPanel' = [reviewPanel EXCEPT !.flags[k] = reviewed]
                  /\ flags' = saveFlag(flags, reviewed)
    /\ UNCHANGED <<engineVars, envVars, storeVars, obsVars, nextFlagId, chainReport, analysis,
                   classifierVars, replayVars>>

\* showStats: the chain status shown to the user, "Intact" or "BROKEN".
VerifyChain ==
    /\ chainReport' = IF verifyHashChain THEN "intact" ELSE "broken"
    /\ UNCHANGED <<engineVars, envVars, storeVars, obsVars, flags, reviewPanel,
                   nextFlagId, analysis, classifierVars, replayVars>>

\* Callers of the storage API open and end a session.
CreateSession ==
    /\ sessions' = Append(sessions, createSession(clock))
    /\ UNCHANGED <<engineVars, envVars, snapshots, tamperedRow, obsVars, otherVars>>

EndSession(id) ==
    /\ sessions' = endSession(sessions, snapshots, id, clock)
    /\ UNCHANGED <<engineVars, envVars, snapshots, tamperedRow, obsVars, otherVars>>

\* ------------------------------------------------------------ FlagAnalyzer
\* A snapshot as the analyzer reads it. Timestamps are in milliseconds. The
\* diff is either missing or a list of lines, each known by its prefix and by
\* the matches of the camelCase and snake_case patterns in it.
Snapshot(id, timestamp, filename, linesAdded, linesRemoved, changeType, changeSize, diff) ==
    [id |-> id, timestamp |-> timestamp, filename |-> filename,
     lines_added |-> linesAdded, lines_removed |-> linesRemoved,
     change_type |-> changeType, change_size |-> changeSize, diff |-> diff]

DiffLine(prefix, camel, snake) == [prefix |-> prefix, camel |-> camel, snake |-> snake]

\* A flag as a rule builds it; analyze numbers the ids.
Flag(category, severity, timestamp, filename, snapshotIds) ==
    [id |-> 0, category |-> category, severity |-> severity, timestamp |-> timestamp,
     filename |-> filename, snapshotIds |-> snapshotIds]

RECURSIVE SumSeq(_)
SumSeq(numbers) ==
    IF numbers = << >> THEN 0 ELSE numbers[1] + SumSeq(Tail(numbers))

\* The indices 1..n in order: for (let i = 0; i < n; i++).
Indices(n) == [i \in 1..n |-> i]

\* for (j = i; j < length; j++) { if (time > windowEnd) break; ... }: the last
\* index of the run of snapshots from i whose time is not after windowEnd
\* (i - 1 when the run is empty).
RECURSIVE WindowFrom(_, _, _)
WindowFrom(rows, i, windowEnd) ==
    IF i > Len(rows) \/ rows[i].timestamp > windowEnd THEN i - 1
    ELSE WindowFrom(rows, i + 1, windowEnd)

\* The filenames in the order a Map keyed by filename first meets them.
RECURSIVE FilesInOrder(_)
FilesInOrder(rows) ==
    IF rows = << >> THEN << >>
    ELSE LET earlier == FilesInOrder(SubSeq(rows, 1, Len(rows) - 1))
             filename == rows[Len(rows)].filename
         IN IF \E k \in DOMAIN earlier : earlier[k] = filename
            THEN earlier ELSE Append(earlier, filename)

\* detectLargePaste without the test of the change type.
detectLargePasteAnyType(rows) ==
    LET hits == SelectSeq(rows, LAMBDA snapshot :
                    snapshot.lines_added >= LARGE_PASTE_THRESHOLD)
    IN [k \in DOMAIN hits |->
          Flag("large_paste", "medium", hits[k].timestamp, hits[k].filename,
               <<hits[k].id>>)]

detectLargePaste(rows) ==
    LET hits == SelectSeq(rows, LAMBDA snapshot :
                    /\ snapshot.lines_added >= LARGE_PASTE_THRESHOLD
                    /\ snapshot.change_type = "paste")
    IN [k \in DOMAIN hits |->
          Flag("large_paste", "medium", hits[k].timestamp, hits[k].filename,
               <<hits[k].id>>)]

\* detectFullyFormedCode looking for an edit of the file anywhere in the
\* sequence, the snapshot itself excluded.
detectFullyFormedCodeAnyEdit(rows) ==
    LET hits == SelectSeq(Indices(Len(rows)), LAMBDA i :
                    /\ rows[i].lines_added >= FULLY_FORMED_LINE_THRESHOLD
                    /\ ~\E j \in DOMAIN rows :
                          j # i /\ rows[j].filename = rows[i].filename)
    IN [k \in DOMAIN hits |->
          Flag("fully_formed_code", "high", rows[hits[k]].timestamp,
               rows[hits[k]].filename, <<rows[hits[k]].id>>)]

\* detectFullyFormedCode with the threshold of the paste rule.
detectFullyFormedCodeFromPasteSize(rows) ==
    LET hits == SelectSeq(Indices(Len(rows)), LAMBDA i :
                    /\ ~(rows[i].lines_added < LARGE_PASTE_THRESHOLD)
                    /\ ~\E j \in (i + 1)..Len(rows) :
                          rows[j].filename = rows[i].filename)
    IN [k \in DOMAIN hits |->
          Flag("fully_formed_code", "high", rows[hits[k]].timestamp,
               rows[hits[k]].filename, <<rows[hits[k]].id>>)]

\* detectFullyFormedCode that looks for an earlier snapshot of the file
\* instead of a later one.
detectFullyFormedCodeFirstOfFile(rows) ==
    LET hits == SelectSeq(Indices(Len(rows)), LAMBDA i :
                    /\ ~(rows[i].lines_added < FULLY_FORMED_LINE_THRESHOLD)
                    /\ ~\E j \in 1..(i - 1) :
                          rows[j].filename = rows[i].filename)
    IN [k \in DOMAIN hits |->
          Flag("fully_formed_code", "high", rows[hits[k]].timestamp,
               rows[hits[k]].filename, <<rows[hits[k]].id>>)]

\* detectFullyFormedCode: a snapshot that adds at least 50 lines and is
\* followed by no snapshot of the same file.
detectFullyFormedCode(rows) ==
    LET hits == SelectSeq(Indices(Len(rows)), LAMBDA i :
                    /\ ~(rows[i].lines_added < FULLY_FORMED_LINE_THRESHOLD)
                    /\ ~\E j \in (i + 1)..Len(rows) :
                          rows[j].filename = rows[i].filename)
    IN [k \in DOMAIN hits |->
          Flag("fully_formed_code", "high", rows[hits[k]].timestamp,
               rows[hits[k]].filename, <<rows[hits[k]].id>>)]

\* detectLongGapThenCompletion whose window stops before the snapshot taken
\* exactly 30 minutes after the gap's end.
detectLongGapThenCompletionOpenWindow(rows) ==
    LET Window(i) == SubSeq(rows, i, WindowFrom(rows, i,
                               rows[i].timestamp + POST_GAP_WINDOW_MS - 1))
        hits == SelectSeq(Indices(Len(rows)), LAMBDA i :
                    /\ i > 1
                    /\ ~(rows[i].timestamp - rows[i - 1].timestamp < LONG_GAP_MS)
                    /\ SumSeq([k \in DOMAIN Window(i) |-> Window(i)[k].lines_added])
                          >= POST_GAP_LINE_THRESHOLD)
    IN [k \in DOMAIN hits |->
          Flag("long_gap", "medium", rows[hits[k]].timestamp, rows[hits[k]].filename,
               [n \in DOMAIN Window(hits[k]) |-> Window(hits[k])[n].id])]

detectLongGapThenCompletion(rows) ==
    LET Window(i) == SubSeq(rows, i, WindowFrom(rows, i,
                               rows[i].timestamp + POST_GAP_WINDOW_MS))
        hits == SelectSeq(Indices(Len(rows)), LAMBDA i :
                    /\ i > 1
                    /\ ~(rows[i].timestamp - rows[i - 1].timestamp < LONG_GAP_MS)
                    /\ SumSeq([k \in DOMAIN Window(i) |-> Window(i)[k].lines_added])
                          >= POST_GAP_LINE_THRESHOLD)
    IN [k \in DOMAIN hits |->
          Flag("long_gap", "medium", rows[hits[k]].timestamp, rows[hits[k]].filename,
               [n \in DOMAIN Window(hits[k]) |-> Window(hits[k])[n].id])]

\* detectNamingConvention: snapshot.diff.split('\n') throws on a snapshot
\* without diff; otherwise the matches of both patterns are counted over the
\* added lines ('+' but not '+++') and the dominant convention is the one
\* with more than 70% of at least 5 matches.
detectNamingConvention(rows) ==
    IF \E k \in DOMAIN rows : rows[k].diff = NotGiven
    THEN [threw |-> TRUE, dominant |-> "null"]
    ELSE LET Lines(k) == CHOOSE lines \in rows[k].diff : TRUE
             Added(k) == SelectSeq(Lines(k), LAMBDA line : line.prefix = "+")
             camelCount == SumSeq([k \in DOMAIN rows |->
                              SumSeq([n \in DOMAIN Added(k) |-> Added(k)[n].camel])])
             snakeCount == SumSeq([k \in DOMAIN rows |->
                              SumSeq([n \in DOMAIN Added(k) |-> Added(k)[n].snake])])
             total == camelCount + snakeCount
         IN [threw |-> FALSE,
             dominant |-> IF total < 5 THEN "null"
                          ELSE IF 10 * camelCount > 7 * total THEN "camelCase"
                          ELSE IF 10 * camelCount < 3 * total THEN "snake_case"
                          ELSE "null"]

\* detectStyleInconsistency with the earlier half rounded down.
detectStyleInconsistencyFloorHalf(rows) ==
    LET files == FilesInOrder(rows)
        fileSnaps(f) == SelectSeq(rows, LAMBDA snapshot : snapshot.filename = files[f])
        half(f) == Len(fileSnaps(f)) \div 2
        earlyStyle(f) == detectNamingConvention(SubSeq(fileSnaps(f), 1, half(f)))
        lateStyle(f) ==
            detectNamingConvention(SubSeq(fileSnaps(f), half(f) + 1, Len(fileSnaps(f))))
        hits == SelectSeq(Indices(Len(files)), LAMBDA f :
                    /\ Len(fileSnaps(f)) >= 2
                    /\ earlyStyle(f).dominant # "null"
                    /\ lateStyle(f).dominant # "null"
                    /\ earlyStyle(f).dominant # lateStyle(f).dominant)
    IN [threw |-> \E f \in DOMAIN files :
                     /\ Len(fileSnaps(f)) >= 2
                     /\ earlyStyle(f).threw \/ lateStyle(f).threw,
        flags |-> [k \in DOMAIN hits |->
                     Flag("style_inconsistency", "medium",
                          fileSnaps(hits[k])[half(hits[k]) + 1].timestamp, files[hits[k]],
                          [n \in DOMAIN fileSnaps(hits[k]) |-> fileSnaps(hits[k])[n].id])]]

\* detectStyleInconsistency: for every file with at least two snapshots the
\* conventions of the earlier and the later half are compared.
detectStyleInconsistency(rows) ==
    LET files == FilesInOrder(rows)
        fileSnaps(f) == SelectSeq(rows, LAMBDA snapshot : snapshot.filename = files[f])
        half(f) == (Len(fileSnaps(f)) + 1) \div 2
        earlyStyle(f) == detectNamingConvention(SubSeq(fileSnaps(f), 1, half(f)))
        lateStyle(f) ==
            detectNamingConvention(SubSeq(fileSnaps(f), half(f) + 1, Len(fileSnaps(f))))
        hits == SelectSeq(Indices(Len(files)), LAMBDA f :
                    /\ Len(fileSnaps(f)) >= 2
                    /\ earlyStyle(f).dominant # "null"
                    /\ lateStyle(f).dominant # "null"
                    /\ earlyStyle(f).dominant # lateStyle(f).dominant)
    IN [threw |-> \E f \in DOMAIN files :
                     /\ Len(fileSnaps(f)) >= 2
                     /\ earlyStyle(f).threw \/ lateStyle(f).threw,
        flags |-> [k \in DOMAIN hits |->
                     Flag("style_inconsistency", "medium",
                          fileSnaps(hits[k])[half(hits[k]) + 1].timestamp, files[hits[k]],
                          [n \in DOMAIN fileSnaps(hits[k]) |-> fileSnaps(hits[k])[n].id])]]

\* detectNoDebugging that looks at the snapshots one by one.
detectNoDebuggingPerSnapshot(rows) ==
    LET hits == SelectSeq(rows, LAMBDA snapshot :
                    /\ snapshot.lines_added >= NO_DEBUGGING_LINE_THRESHOLD
                    /\ snapshot.lines_removed = 0)
    IN [k \in DOMAIN hits |->
          Flag("no_debugging", "low", hits[k].timestamp, hits[k].filename,
               <<hits[k].id>>)]

detectNoDebugging(rows) ==
    LET files == FilesInOrder(rows)
        fileSnaps(f) == SelectSeq(rows, LAMBDA snapshot : snapshot.filename = files[f])
        totalAdded(f) == SumSeq([n \in DOMAIN fileSnaps(f) |-> fileSnaps(f)[n].lines_added])
        totalRemoved(f) ==
            SumSeq([n \in DOMAIN fileSnaps(f) |-> fileSnaps(f)[n].lines_removed])
        hits == SelectSeq(Indices(Len(files)), LAMBDA f :
                    /\ totalAdded(f) >= NO_DEBUGGING_LINE_THRESHOLD
                    /\ totalRemoved(f) = 0)
    IN [k \in DOMAIN hits |->
          Flag("no_debugging", "low", fileSnaps(hits[k])[1].timestamp, files[hits[k]],
               [n \in DOMAIN fileSnaps(hits[k]) |-> fileSnaps(hits[k])[n].id])]

\* detectUnusualSpeed without the test of the number of snapshots in the window.
detectUnusualSpeedAnyWindow(rows) ==
    LET Window(i) == SubSeq(rows, i, WindowFrom(rows, i,
                               rows[i].timestamp + SPEED_WINDOW_MS))
        Fast(i) ==
            SumSeq([k \in DOMAIN Window(i) |-> Window(i)[k].change_size])
                >= UNUSUAL_SPEED_CPM * (SPEED_WINDOW_MS \div 60000)
        hits == SelectSeq(Indices(Len(rows)), LAMBDA i :
                    /\ Fast(i)
                    /\ ~\E k \in 1..(i - 1) : Fast(k) /\ rows[k].id = rows[i].id)
    IN [k \in DOMAIN hits |->
          Flag("unusual_typing_speed", "low", rows[hits[k]].timestamp,
               rows[hits[k]].filename,
               [n \in DOMAIN Window(hits[k]) |-> Window(hits[k])[n].id])]

\* detectUnusualSpeed: totalChars / 5 >= 200 over the window of each starting
\* snapshot, which must hold two snapshots; a starting snapshot whose id was
\* flagged already is skipped.
detectUnusualSpeed(rows) ==
    LET Window(i) == SubSeq(rows, i, WindowFrom(rows, i,
                               rows[i].timestamp + SPEED_WINDOW_MS))
        Fast(i) ==
            /\ SumSeq([k \in DOMAIN Window(i) |-> Window(i)[k].change_size])
                  >= UNUSUAL_SPEED_CPM * (SPEED_WINDOW_MS \div 60000)
            /\ Len(Window(i)) >= 2
        hits == SelectSeq(Indices(Len(rows)), LAMBDA i :
                    /\ Fast(i)
                    /\ ~\E k \in 1..(i - 1) : Fast(k) /\ rows[k].id = rows[i].id)
    IN [k \in DOMAIN hits |->
          Flag("unusual_typing_speed", "low", rows[hits[k]].timestamp,
               rows[hits[k]].filename,
               [n \in DOMAIN Window(hits[k]) |-> Window(hits[k])[n].id])]

\* detectRapidCompletion: nothing for fewer than 2 snapshots; otherwise one
\* flag over the whole sequence when it spans at most an hour and adds at
\* least 200 lines.
detectRapidCompletion(rows) ==
    IF Len(rows) < 2 THEN << >>
    ELSE IF /\ rows[Len(rows)].timestamp - rows[1].timestamp <= RAPID_COMPLETION_TIME_MS
            /\ SumSeq([k \in DOMAIN rows |-> rows[k].lines_added])
                  >= RAPID_COMPLETION_LINE_THRESHOLD
    THEN <<Flag("rapid_completion", "low", rows[1].timestamp, rows[1].filename,
                [k \in DOMAIN rows |-> rows[k].id])>>
    ELSE << >>

\* analyze: nothing for an empty sequence; otherwise the flags of the seven
\* rules in their order, each with a newly generated id. A rule that throws
\* makes analyze throw.
analyze(rows, generated) ==
    IF rows = << >> THEN [threw |-> FALSE, flags |-> << >>]
    ELSE LET style == detectStyleInconsistency(rows)
             found == detectLargePaste(rows) \o detectFullyFormedCode(rows)
                      \o detectLongGapThenCompletion(rows) \o style.flags
                      \o detectNoDebugging(rows) \o detectUnusualSpeed(rows)
                      \o detectRapidCompletion(rows)
         IN IF style.threw THEN [threw |-> TRUE, flags |-> << >>]
            ELSE [threw |-> FALSE,
                  flags |-> [k \in DOMAIN found |-> [found[k] EXCEPT !.id = generated + k]]]

\* The analyzer is run over all the stored snapshots, as reviewFlags does.
Analyze ==
    LET all == getSnapshots(snapshots, NoFilters)
        result == analyze(all, nextFlagId)
    IN /\ analysis' = [snapshots |-> all,
                       outcome |-> IF result.threw THEN "threw" ELSE "returned",
                       flags |-> result.flags]
       /\ nextFlagId' = nextFlagId + Len(result.flags)
       /\ UNCHANGED <<engineVars, envVars, storeVars, obsVars, flags, reviewPanel,
                      chainReport, classifierVars, replayVars>>

\* ---------------------------------------------------------- specifications
TypingEvent == <<Change(1, 0)>>
PasteEvent == <<Change(DEFAULT_PASTE_CHAR_THRESHOLD, 0)>>
EngineEvents == {<< >>, TypingEvent}

\* The bounds of the model: sessions started, edits merged into one pending
\* entry, snapshots fired.
MayStart == isRunning \/ Len(sessions) < MaxSessions

MayEdit(filePath) ==
    isRunning =>
        /\ Len(editLog[filePath]) < MaxPending
        /\ Len(emitted) + Cardinality(PendingFiles(pendingChanges) \cup {filePath})
              <= MaxSnapshots

\* The engine in a well-behaved environment: nothing throws, documents stay
\* open, the wall clock is not set back.
Next ==
    \/ MayStart /\ Start
    \/ \E input \in CleanInputs : Stop(input)
    \/ Pause
    \/ Resume
    \/ \E input \in CleanInputs : Tick(input)
    \/ \E f \in Files, changes \in EngineEvents, text \in Contents :
          MayEdit(f) /\ DocumentChange(f, changes, text)

Spec == Init /\ [][Next]_vars

\* The engine when the diff or the hash of a file may throw.
ThrowingInputs ==
    {input \in FlushInputs : input.saveThrows = {} /\ input.now >= clock}

NextFaulty ==
    \/ MayStart /\ Start
    \/ \E input \in ThrowingInputs : Stop(input)
    \/ Pause
    \/ Resume
    \/ \E input \in ThrowingInputs : Tick(input)
    \/ \E f \in Files, changes \in EngineEvents, text \in Contents :
          MayEdit(f) /\ DocumentChange(f, changes, text)

SpecFaulty == Init /\ [][NextFaulty]_vars

\* Recording again into the same store: the engine is started, records one
\* file, is stopped and started again, in a well-behaved environment.
NextSessions ==
    \/ (isRunning \/ Len(sessions) < MaxRecordings) /\ Start
    \/ \E input \in CleanInputs : Stop(input)
    \/ \E input \in CleanInputs : Tick(input)
    \/ \E changes \in EngineEvents, text \in Contents :
          MayEdit("a.ts") /\ DocumentChange("a.ts", changes, text)

SpecSessions == Init /\ [][NextSessions]_vars

\* The engine in any environment: diffing, hashing and the INSERT may throw,
\* documents are closed and reopened, the wall clock may be set back.
NextAdverse ==
    \/ MayStart /\ Start
    \/ \E input \in FlushInputs : Stop(input)
    \/ Pause
    \/ Resume
    \/ \E input \in FlushInputs : Tick(input)
    \/ \E f \in Files, changes \in EngineEvents, text \in Contents :
          MayEdit(f) /\ DocumentChange(f, changes, text)
    \/ \E f \in Files : CloseDocument(f)
    \/ \E f \in Files, text \in Contents : OpenDocument(f, text)

SpecAdverse == Init /\ [][NextAdverse]_vars

\* Flushes that emit nothing: the diff of a file may throw and documents are
\* closed, while the wall clock stands still.
StillInputs ==
    {input \in FlushInputs :
        input.saveThrows = {} /\ input.now = clock /\ input.elapsed = 0}

NextDiscard ==
    \/ MayStart /\ Start
    \/ \E input \in StillInputs : Stop(input)
    \/ Pause
    \/ Resume
    \/ \E input \in StillInputs : Tick(input)
    \/ \E f \in Files, text \in Contents :
          MayEdit(f) /\ DocumentChange(f, TypingEvent, text)
    \/ \E f \in Files : CloseDocument(f)

SpecDiscard == Init /\ [][NextDiscard]_vars

\* The chain store on its own: snapshots are saved in any timestamp order, and
\* one chain_hash of a store that verifies is overwritten.
NextChain ==
    \/ \E snapshot \in EngineBuilt(snapshots) :
          /\ Len(snapshots) < MaxRows
          /\ tamperedRow = 0
          /\ SaveSnapshot(snapshot)
    \/ \E i \in DOMAIN snapshots :
          \E hash \in ForgedHashes(snapshots, i) :
              /\ tamperedRow = 0
              /\ verifyHashChain
              /\ TamperChainHash(i, hash)

SpecChain == Init /\ [][NextChain]_vars

\* The aggregator: edits of every kind accumulate between flushes.
DeleteEvent == <<Change(0, DELETE_CHAR_THRESHOLD)>>
RefactorEvent == <<Change(1, 0), Change(1, 1)>>
AggregatorEvents == {TypingEvent, DeleteEvent, RefactorEvent, PasteEvent}

RECURSIVE SumLen(_, _)
SumLen(log, files) ==
    IF files = {} THEN 0
    ELSE LET f == CHOOSE x \in files : TRUE
         IN Len(log[f]) + SumLen(log, files \ {f})

\* Edits are followed up to the first snapshot, MaxEdits of them between two
\* flushes.
MayAggregate ==
    /\ isRunning
    /\ SumLen(editLog, Files) < MaxEdits
    /\ emitted = << >>

NextAggregator ==
    \/ MayStart /\ Start
    \/ Pause
    \/ Resume
    \/ \E input \in CleanInputs : Tick(input)
    \/ \E f \in Files, changes \in AggregatorEvents, text \in Contents :
          MayAggregate /\ DocumentChange(f, changes, text)

SpecAggregator == Init /\ [][NextAggregator]_vars

\* The store queried: snapshots of two files and two sessions, saved with
\* timestamps in any order, each linked to the row saved before it.
QueryRows(rows) ==
    {SnapshotRow(timestamp, filename, Sha256("x"), "typing", 1,
                 ChainDigest(IF rows = << >> THEN EmptyString
                             ELSE rows[Len(rows)].chain_hash,
                             Sha256("x"), timestamp), id) :
        timestamp \in 0..MaxClock, filename \in Files, id \in SessionIds}

NextQuery ==
    \E snapshot \in QueryRows(snapshots) :
        /\ Len(snapshots) < MaxRows
        /\ SaveSnapshot(snapshot)

SpecQuery == Init /\ [][NextQuery]_vars

\* The store under review: snapshots are saved (in or out of timestamp order,
\* so that the chain verifies or not), a session is opened and ended, the
\* chain is verified, flags are raised, reviewed and saved.
ReviewMessages == {"addContext", "acknowledge", "dismiss", "generateClean"}

ReviewedRows(rows) ==
    {SnapshotRow(timestamp, "a.ts", Sha256("x"), "typing", 1,
                 ChainDigest(IF rows = << >> THEN EmptyString
                             ELSE rows[Len(rows)].chain_hash,
                             Sha256("x"), timestamp), 1) :
        timestamp \in {0, 1}}

NextReview ==
    \/ \E snapshot \in ReviewedRows(snapshots) :
          /\ Len(snapshots) < MaxSnapshots
          /\ SaveSnapshot(snapshot)
    \/ sessions = << >> /\ CreateSession
    \/ \E k \in DOMAIN sessions :
          sessions[k].ended_at = EmptyString /\ EndSession(sessions[k].id)
    \/ VerifyChain
    \/ \E rawFlags \in AnalyzerFlags(getSnapshots(snapshots, NoFilters), nextFlagId) :
          /\ nextFlagId + Len(rawFlags) <= MaxFlags
          /\ ReviewFlags(rawFlags)
    \/ \E type \in ReviewMessages, flagId \in 1..MaxFlags :
          ReviewMessage(type, flagId, "note")

SpecReview == Init /\ [][NextReview]_vars

\* Reviewing again: the snapshots are recorded first; from the first review on
\* the sequence stays as it is while flags are raised, reviewed and saved, the
\* panel is closed and the flags are reviewed again.
NextReviewAgain ==
    \/ \E snapshot \in ReviewedRows(snapshots) :
          /\ Len(snapshots) < MaxSnapshots
          /\ nextFlagId = 0 /\ ~reviewPanel.open
          /\ SaveSnapshot(snapshot)
    \/ \E rawFlags \in AnalyzerFlags(getSnapshots(snapshots, NoFilters), nextFlagId) :
          /\ nextFlagId + Len(rawFlags) <= MaxFlags
          /\ ReviewFlags(rawFlags)
    \/ \E type \in ReviewMessages, flagId \in 1..MaxFlags :
          ReviewMessage(type, flagId, "note")

SpecReviewAgain == Init /\ [][NextReviewAgain]_vars

\* A detector on its own: edit events of no, one and two ranges, with inserted
\* lengths around both thresholds and removed lengths around the delete
\* threshold, are classified, and the threshold is changed between calls.
PasteThresholds == {DEFAULT_PASTE_CHAR_THRESHOLD, 1}
InsertedLengths == {0, 1, DEFAULT_PASTE_CHAR_THRESHOLD - 1, DEFAULT_PASTE_CHAR_THRESHOLD}
RemovedLengths == {0, DELETE_CHAR_THRESHOLD - 1, DELETE_CHAR_THRESHOLD}
ClassifiedChanges ==
    {Change(textLength, rangeLength) :
        textLength \in InsertedLengths, rangeLength \in RemovedLengths}
ClassifiedEvents ==
    {<< >>} \cup {<<change>> : change \in ClassifiedChanges}
            \cup {<<first, second>> : first \in ClassifiedChanges,
                                      second \in ClassifiedChanges}

NextClassifier ==
    \/ \E threshold \in PasteThresholds : SetPasteThreshold(threshold)
    \/ \E changes \in ClassifiedEvents : Detect(changes)

SpecClassifier == Init /\ [][NextClassifier]_vars

\* The engine under changing settings: recordings are started and stopped by
\* the extension, the settings change at any moment, and single-range inserts
\* of one character less than each threshold and of exactly each threshold
\* arrive.
OtherPasteThreshold == DEFAULT_PASTE_CHAR_THRESHOLD - 1
OtherSnapshotInterval == 2 * DEFAULT_SNAPSHOT_INTERVAL
ConfiguredSettings ==
    {[pasteThreshold |-> threshold, snapshotInterval |-> interval,
      excludePatterns |-> {}] :
        threshold \in {DEFAULT_PASTE_CHAR_THRESHOLD, OtherPasteThreshold},
        interval \in {DEFAULT_SNAPSHOT_INTERVAL, OtherSnapshotInterval}}
BoundaryEvents ==
    {<<Change(threshold - 1, 0)>> :
        threshold \in {DEFAULT_PASTE_CHAR_THRESHOLD, OtherPasteThreshold}}
    \cup {<<Change(threshold, 0)>> :
        threshold \in {DEFAULT_PASTE_CHAR_THRESHOLD, OtherPasteThreshold}}

NextConfig ==
    \/ MayStart /\ StartRecording
    \/ \E input \in CleanInputs : Stop(input)
    \/ \E config \in ConfiguredSettings : ConfigChange(config)
    \/ \E changes \in BoundaryEvents :
          MayEdit("a.ts") /\ DocumentChange("a.ts", changes, "x")

SpecConfig == Init /\ [][NextConfig]_vars

\* The life cycle of one engine: it is started (the session row is inserted or
\* the INSERT throws), paused, resumed and stopped, its timer fires, a file is
\* edited and the settings change.
NextLifecycle ==
    \/ MayStart /\ Start
    \/ StartFailing
    \/ \E input \in CleanInputs : Stop(input)
    \/ Pause
    \/ Resume
    \/ \E input \in CleanInputs : Tick(input)
    \/ \E text \in Contents : MayEdit("a.ts") /\ DocumentChange("a.ts", TypingEvent, text)
    \/ \E config \in ConfiguredSettings : ConfigChange(config)

SpecLifecycle == Init /\ [][NextLifecycle]_vars

\* The recorder: typed characters at several positions of two lines, a
\* two-character insert, a replacement, a two-range edit and an edit of
\* another file arrive 0, 100, 500 or 600 ms apart, between flushes.
ReplayTimes == {0, 100, 600}

Typed(line, character) ==
    <<ReplayChange(Position(line, character), Position(line, character), <<"a">>, 0)>>
Pasted(line, character) ==
    <<ReplayChange(Position(line, character), Position(line, character), <<"a", "b">>, 0)>>
Replaced(line, character) ==
    <<ReplayChange(Position(line, character), Position(line, character + 1), <<"a">>, 1)>>

ReplayEdits ==
    {<<"a.ts", Typed(0, character)>> : character \in {0, 1, 2}}
    \cup {<<"a.ts", Pasted(0, character)>> : character \in {0, 1}}
    \cup {<<"a.ts", Typed(1, 1)>>, <<"a.ts", Replaced(0, 1)>>,
          <<"a.ts", Typed(0, 0) \o Typed(0, 1)>>, <<"b.ts", Typed(0, 1)>>,
          <<"a.ts", << >> >>}

\* The characters the recorder holds or has handed over, an event without
\* text counting as one.
RECURSIVE ReplayWeight(_)
ReplayWeight(events) ==
    IF events = << >> THEN 0
    ELSE LET inserted == SumLen([k \in DOMAIN events[1].changes |->
                                    events[1].changes[k].text],
                                DOMAIN events[1].changes)
         IN (IF inserted = 0 THEN 1 ELSE inserted) + ReplayWeight(Tail(events))

NextReplay ==
    \/ ReplayStart
    \/ ReplayStop
    \/ ReplayFlush
    \/ \E edit \in ReplayEdits, now \in ReplayTimes :
          /\ now >= clock
          /\ ReplayWeight(buffer) + ReplayWeight(replayEvents)
                + ReplayWeight(<<ReplayEvent(now, edit[1], edit[2])>>) <= MaxReplay
          /\ ReplayDocumentChange(edit[1], edit[2], now)

SpecReplay == Init /\ [][NextReplay]_vars

\* The analyzer over stored snapshots: snapshots are saved one after the other
\* with increasing timestamps, and the analyzer is run once, over what is
\* stored then. Each family of cases varies what some of the rules read.
Later(rows, delta) == IF rows = << >> THEN 0 ELSE rows[Len(rows)].timestamp + delta

\* Sizes and change types around the thresholds of the paste, fully-formed
\* and no-debugging rules, a second apart.
SizeCases(rows) ==
    {Snapshot(Len(rows) + 1, Later(rows, 1000), case[1], case[3], case[4], case[2], 1,
              Given(<< >>)) :
        case \in {<<"a.ts", "paste", 42, 0>>, <<"a.ts", "paste", 29, 0>>,
                  <<"a.ts", "paste", 30, 0>>, <<"a.ts", "typing", 30, 0>>,
                  <<"a.ts", "typing", 49, 0>>, <<"a.ts", "typing", 50, 0>>,
                  <<"a.ts", "paste", 50, 0>>, <<"a.ts", "typing", 100, 0>>,
                  <<"a.ts", "typing", 1, 1>>, <<"b.ts", "typing", 50, 0>>,
                  <<"b.ts", "paste", 30, 1>>}}

\* Pauses around 2 hours and around the 30-minute window after them.
GapCases(rows) ==
    {Snapshot(Len(rows) + 1, Later(rows, delta), "a.ts", linesAdded, 0, "typing", 1,
              Given(<< >>)) :
        delta \in {1000, POST_GAP_WINDOW_MS, POST_GAP_WINDOW_MS + 1,
                   LONG_GAP_MS - 1, LONG_GAP_MS},
        linesAdded \in {15, POST_GAP_LINE_THRESHOLD}}

\* Sessions of about an hour with about 200 lines.
RapidCases(rows) ==
    {Snapshot(Len(rows) + 1, Later(rows, delta), "a.ts", linesAdded, 1, "typing", 1,
              Given(<< >>)) :
        delta \in {POST_GAP_WINDOW_MS, RAPID_COMPLETION_TIME_MS,
                   RAPID_COMPLETION_TIME_MS + 1},
        linesAdded \in {99, 100, RAPID_COMPLETION_LINE_THRESHOLD}}

\* Windows of about 5 minutes with about 1000 characters.
SpeedCases(rows) ==
    {Snapshot(Len(rows) + 1, Later(rows, delta), "a.ts", 1, 1, "typing", changeSize,
              Given(<< >>)) :
        delta \in {1000, SPEED_WINDOW_MS, SPEED_WINDOW_MS + 1},
        changeSize \in {499, 500, 1000}}

\* Large pastes into two files whose diff is missing, empty, or adds lines in
\* one naming convention.
DiffCases(rows) ==
    {Snapshot(Len(rows) + 1, Later(rows, 1000), filename, 100, 0, "paste", 1, diff) :
        filename \in Files,
        diff \in {NotGiven, Given(<< >>),
                  Given(<<DiffLine("+++", 0, 1), DiffLine("+", 5, 0), DiffLine("-", 0, 9)>>),
                  Given(<<DiffLine("+", 1, 5)>>)}}

\* Diffs whose added lines hold camelCase and snake_case matches around the
\* thresholds of the naming rule (fewer than 5, exactly 70% and 30%, beyond),
\* with a file header line and a removed line that do not count.
StyleCases(rows) ==
    {Snapshot(Len(rows) + 1, Later(rows, 1000), filename, 1, 1, "typing", 1, Given(diff)) :
        filename \in Files,
        diff \in {<<DiffLine("+++", 0, 5), DiffLine("+", 4, 0), DiffLine("-", 0, 9)>>,
                  <<DiffLine("+", 1, 0)>>,
                  <<DiffLine("+", 0, 3), DiffLine("+", 0, 2)>>,
                  <<DiffLine("+", 7, 3)>>,
                  <<DiffLine("+", 8, 2)>>,
                  <<DiffLine("+", 3, 7)>>,
                  <<DiffLine("+", 2, 8)>>}}

NextAnalyzer(cases) ==
    \/ \E snapshot \in cases :
          /\ Len(snapshots) < MaxRows
          /\ analysis = NoAnalysis
          /\ SaveSnapshot(snapshot)
    \/ analysis = NoAnalysis /\ Analyze

SpecSizes == Init /\ [][NextAnalyzer(SizeCases(snapshots))]_vars
SpecGaps == Init /\ [][NextAnalyzer(GapCases(snapshots))]_vars
SpecRapid == Init /\ [][NextAnalyzer(RapidCases(snapshots))]_vars
SpecSpeed == Init /\ [][NextAnalyzer(SpeedCases(snapshots))]_vars
SpecDiffs == Init /\ [][NextAnalyzer(DiffCases(snapshots))]_vars
SpecStyle == Init /\ [][NextAnalyzer(StyleCases(snapshots))]_vars

\* ------------------------------------------------------------------ claims
\* C1: verifyHashChain returns true exactly when, walking the stored snapshots
\* in ascending timestamp order from the empty-string seed, every stored
\* chain_hash equals digest(chain_hash of the row before ++ content_hash ++
\* timestamp); an empty store verifies as true.
ChainLinked(rows) ==
    \A i \in DOMAIN rows :
        rows[i].chain_hash =
            ChainDigest(IF i = 1 THEN EmptyString ELSE rows[i - 1].chain_hash,
                        rows[i].content_hash, rows[i].timestamp)

AscendingByTimestamp(rows) ==
    \A i, j \in DOMAIN rows : i < j => rows[i].timestamp <= rows[j].timestamp

C1_VerifyIffLinked ==
    LET rows == OrderByTimestamp(snapshots)
    IN /\ Len(rows) = Len(snapshots)
       /\ AscendingByTimestamp(rows)
       /\ verifyHashChain <=> ChainLinked(rows)
       /\ snapshots = << >> => verifyHashChain

\* C1 witness: three rows, two of them with the same timestamp, whose chain
\* verifies.
C1_Witness ==
    /\ Len(snapshots) = 3
    /\ tamperedRow = 0
    /\ snapshots[1].timestamp = snapshots[2].timestamp
    /\ snapshots[2].timestamp < snapshots[3].timestamp
    /\ verifyHashChain

\* C2: once the chain_hash of one row (first, middle or last) of a store that
\* verified has been replaced by a different value, verifyHashChain returns
\* false: the break is not cut down to the valid prefix.
C2_TamperDetected == tamperedRow # 0 => ~verifyHashChain

\* C2 witness: the middle row of three was overwritten.
C2_Witness ==
    /\ Len(snapshots) = 3
    /\ tamperedRow = 2
    /\ ~verifyHashChain

\* The snapshots a session fired, in emission order.
FiredIn(session) == SelectSeq(emitted, LAMBDA r : r.session_id = session)

StoredIn(session) == SelectSeq(snapshots, LAMBDA r : r.session_id = session)

Last(seq) == seq[Len(seq)]

StepsOf(filePath, outcome) ==
    {k \in DOMAIN flushLog.steps :
        /\ flushLog.steps[k].filePath = filePath
        /\ flushLog.steps[k].outcome = outcome}

\* C3: every snapshot the engine emits has chain_hash = digest(cursor ++
\* content_hash ++ timestamp), the cursor being the chain_hash of the snapshot
\* emitted just before it in the same session (the empty string for the
\* first), and the engine's cursor is the chain_hash of the latest emission;
\* the snapshots of one tick are linked one after another.
C3_EmittedLinkedThroughCursor ==
    /\ \A k \in DOMAIN sessions : ChainLinked(FiredIn(sessions[k].id))
    /\ isRunning =>
          lastChainHash = IF FiredIn(sessionId) = << >>
                          THEN EmptyString
                          ELSE Last(FiredIn(sessionId)).chain_hash

\* C3 witness: one tick emitted snapshots for two files, the second linked to
\* the first.
C3_Witness ==
    /\ flushLog.caller = "tick"
    /\ Len(flushLog.steps) = 2
    /\ \A k \in DOMAIN flushLog.steps : flushLog.steps[k].outcome = "emitted"
    /\ Len(emitted) = 2
    /\ emitted[1].filename # emitted[2].filename
    /\ lastChainHash = emitted[2].chain_hash

\* C4 (as claimed): within a session the snapshots are persisted in emission
\* order and a snapshot persisted later never has a smaller timestamp than one
\* persisted earlier.
C4_PersistedInTimestampOrder ==
    \A k \in DOMAIN sessions :
        LET rows == StoredIn(sessions[k].id)
        IN \A i, j \in DOMAIN rows : i < j => rows[i].timestamp <= rows[j].timestamp

\* C5 (as claimed): stop emits exactly one snapshot for every file that has a
\* pending entry and live content different from its baseline, whatever the
\* engine state (paused included).
C5_StopFlushesOnce ==
    flushLog.caller = "stop" =>
        \A f \in flushLog.dirty : Cardinality(StepsOf(f, "emitted")) = 1

\* C6: while the engine is paused, no step (a tick, an edit) emits or persists
\* a snapshot, moves the cursor, drops a pending entry or rewrites a recorded
\* baseline, and an accepted edit still adds its characters to the pending
\* entry of its file; a tick of the resumed engine emits, for every pending
\* file whose text differs from its baseline, a snapshot carrying the whole
\* accumulated entry.
PendingOf(pending, filePath) ==
    LET at == PendingIndex(pending, filePath)
    IN IF at = {}
       THEN [changeType |-> "typing", charsAdded |-> 0, charsRemoved |-> 0]
       ELSE LET e == pending[CHOOSE i \in at : TRUE]
            IN [changeType |-> e.changeType, charsAdded |-> e.charsAdded,
                charsRemoved |-> e.charsRemoved]

PausedStep ==
    (isPaused /\ isPaused') =>
        /\ emitted' = emitted
        /\ snapshots' = snapshots
        /\ lastChainHash' = lastChainHash
        /\ snapshotCount' = snapshotCount
        /\ PendingFiles(pendingChanges) \subseteq PendingFiles(pendingChanges')
        /\ \A f \in Files :
              /\ fileContents[f] # Absent => fileContents'[f] = fileContents[f]
              /\ Len(editLog'[f]) = Len(editLog[f]) + 1 =>
                    /\ f \in PendingFiles(pendingChanges')
                    /\ PendingOf(pendingChanges', f).charsAdded =
                          PendingOf(pendingChanges, f).charsAdded
                              + Last(editLog'[f]).charsAdded

ResumedTickStep ==
    (~isPaused /\ flushLog'.caller = "tick" /\ flushLog' # flushLog) =>
        \A f \in DirtyFiles :
            \E k \in (Len(emitted) + 1)..Len(emitted') :
                /\ emitted'[k].filename = f
                /\ emitted'[k].change_type = PendingOf(pendingChanges, f).changeType
                /\ emitted'[k].change_size =
                      PendingOf(pendingChanges, f).charsAdded
                          + PendingOf(pendingChanges, f).charsRemoved

C6_PauseKeepsPending == [][PausedStep /\ ResumedTickStep]_vars

\* C6 witness: a tick has run on the paused engine while a file with two
\* accumulated edits was waiting, and the entry is still pending.
C6_Witness ==
    /\ isPaused
    /\ flushLog.caller = "tick"
    /\ flushLog.skipped
    /\ flushLog.dirty # {}
    /\ \E i \in DOMAIN pendingChanges : pendingChanges[i].charsAdded = 2
    /\ emitted = << >>

\* C7: when a flush reaches a file whose live content equals its recorded
\* content, that call emits and persists nothing and leaves the cursor, the
\* snapshot count and the file's baseline as they were.
C7_UnchangedContentSkipped ==
    \A k \in DOMAIN flushLog.steps :
        flushLog.steps[k].contentSame =>
            /\ ~flushLog.steps[k].changed
            /\ flushLog.steps[k].outcome # "emitted"

\* C7 witness: a tick that emitted for one file and skipped the other, whose
\* content was unchanged.
C7_Witness ==
    /\ flushLog.caller = "tick"
    /\ \E k \in DOMAIN flushLog.steps : flushLog.steps[k].contentSame
    /\ \E k \in DOMAIN flushLog.steps : flushLog.steps[k].outcome = "emitted"

\* C8: between two flushes the pending entry of a file holds the highest
\* change type, under typing < delete < refactor < paste, of all the edits
\* accepted for the file since the entry was created, and the sums of their
\* added and removed characters, whatever the order of the edits; a file
\* without accepted edits has no entry.
ClaimedOrder == <<"typing", "delete", "refactor", "paste">>

Rank(changeType) == CHOOSE k \in DOMAIN ClaimedOrder : ClaimedOrder[k] = changeType

HighestType(log) ==
    CHOOSE t \in {log[k].changeType : k \in DOMAIN log} :
        \A k \in DOMAIN log : Rank(log[k].changeType) <= Rank(t)

RECURSIVE SumAdded(_)
SumAdded(log) == IF log = << >> THEN 0 ELSE log[1].charsAdded + SumAdded(Tail(log))

RECURSIVE SumRemoved(_)
SumRemoved(log) == IF log = << >> THEN 0 ELSE log[1].charsRemoved + SumRemoved(Tail(log))

C8_PendingIsMaxAndSum ==
    \A f \in Files :
        IF editLog[f] = << >>
        THEN f \notin PendingFiles(pendingChanges)
        ELSE /\ Cardinality(PendingIndex(pendingChanges, f)) = 1
             /\ PendingOf(pendingChanges, f) =
                   [changeType |-> HighestType(editLog[f]),
                    charsAdded |-> SumAdded(editLog[f]),
                    charsRemoved |-> SumRemoved(editLog[f])]

\* C8 witness: typing, then paste, then typing on one file: the entry is a
\* paste with the three sizes added up.
C8_Witness ==
    \E f \in Files :
        /\ Len(editLog[f]) = 3
        /\ editLog[f][1].changeType = "typing"
        /\ editLog[f][2].changeType = "paste"
        /\ editLog[f][3].changeType = "typing"
        /\ PendingOf(pendingChanges, f).changeType = "paste"
        /\ PendingOf(pendingChanges, f).charsAdded = DEFAULT_PASTE_CHAR_THRESHOLD + 2

\* C9: a flush that is not skipped deals with every file it is due to record,
\* also after the emission of another file has failed; a failed emission
\* changes nothing, and the cursor is the chain_hash of the snapshot emitted
\* last (the seed when the session has emitted none).
C9_FailureIsolated ==
    /\ ~flushLog.skipped =>
          \A f \in flushLog.dirty :
              Cardinality(StepsOf(f, "emitted") \cup StepsOf(f, "failed")) = 1
    /\ \A k \in DOMAIN flushLog.steps :
          flushLog.steps[k].outcome = "failed" =>
              ~flushLog.steps[k].changed /\ ~flushLog.steps[k].cursorMoved
    /\ isRunning =>
          lastChainHash = IF FiredIn(sessionId) = << >>
                          THEN EmptyString
                          ELSE Last(FiredIn(sessionId)).chain_hash
    /\ Len(emitted) >= Cardinality({k \in DOMAIN flushLog.steps :
                                       flushLog.steps[k].outcome = "emitted"})

\* C9 witness: in one flush the first file failed and the second was emitted.
C9_Witness ==
    /\ Len(flushLog.steps) = 2
    /\ flushLog.steps[1].outcome = "failed"
    /\ flushLog.steps[2].outcome = "emitted"
    /\ lastChainHash = Last(emitted).chain_hash

\* C10 (as claimed): every snapshot that was counted and announced, and that
\* the cursor has moved past, is in the store.
C10_EmittedIsStored ==
    \A k \in DOMAIN emitted : \E j \in DOMAIN snapshots : snapshots[j] = emitted[k]

\* An accepted edit notification: handleDocumentChange recorded an edit.
EditStep == \E f \in Files : Len(editLog'[f]) > Len(editLog[f])

\* C12 (as claimed): every edit notification leaves the chain cursor and the
\* per-file baseline content map unchanged.
C12_EditLeavesCursorAndBaselineMap ==
    [][EditStep => (lastChainHash' = lastChainHash /\ fileContents' = fileContents)]_vars

\* C12 (amended): an edit notification leaves the chain cursor, the snapshot
\* count, the store and every recorded baseline unchanged; the only write to
\* the baseline map is the empty baseline recorded for a file edited for the
\* first time, which is the content a flush reads for a file without an entry.
C12_EditLeavesCursorAndRecordedBaselines ==
    [][EditStep =>
          /\ lastChainHash' = lastChainHash
          /\ snapshotCount' = snapshotCount
          /\ snapshots' = snapshots
          /\ emitted' = emitted
          /\ \A f \in Files :
                /\ PreviousContent(fileContents', f) = PreviousContent(fileContents, f)
                /\ fileContents[f] # Absent => fileContents'[f] = fileContents[f]
                /\ fileContents'[f] # fileContents[f] =>
                      /\ Len(editLog'[f]) > Len(editLog[f])
                      /\ fileContents'[f] = EmptyContent]_vars

\* C12 witness: an edit was accepted for a file that has a non-empty recorded
\* baseline, after the cursor had moved off the seed.
C12_Witness ==
    /\ flushLog = NoFlush
    /\ lastChainHash # EmptyString
    /\ \E f \in PendingFiles(pendingChanges) : fileContents[f] = "x"

\* C13: the sessions table holds at most one session with an empty ended_at;
\* while the engine runs it holds exactly one, the session start created, and
\* once the engine has been stopped it holds none.
OpenSessions == {k \in DOMAIN sessions : sessions[k].ended_at = EmptyString}

C14_ClosedSessionAggregates ==
    /\ \A k \in DOMAIN sessions :
          sessions[k].ended_at # EmptyString =>
              LET mine == StoredIn(sessions[k].id)
              IN /\ sessions[k].files_touched = {mine[j].filename : j \in DOMAIN mine}
                 /\ sessions[k].total_snapshots = Len(mine)
    /\ (~isRunning /\ sessionId # 0) =>
          \E k \in DOMAIN sessions :
              sessions[k].id = sessionId /\ sessions[k].ended_at # EmptyString

\* C14 witness: stop emitted a snapshot in its final flush, and the closed
\* session counts it together with an earlier one of another file.
C14_Witness ==
    /\ ~isRunning
    /\ flushLog.caller = "stop"
    /\ \E k \in DOMAIN flushLog.steps : flushLog.steps[k].outcome = "emitted"
    /\ Len(sessions) = 1
    /\ sessions[1].total_snapshots = 2
    /\ Cardinality(sessions[1].files_touched) = 2

\* C15: for every combination of the filename, after, before and sessionId
\* filters, getSnapshots returns exactly the stored snapshots that match all
\* the filters given (after and before as strict bounds), each as often as it
\* is stored, in ascending timestamp order.
Occurrences(rows, row) == Cardinality({i \in DOMAIN rows : rows[i] = row})

Asked(option, Holds(_)) == option = NotGiven \/ \E value \in option : Holds(value)

C15_QueryReturnsMatchesAscending ==
    \A options \in SnapshotQueryOptions :
        LET result == getSnapshots(snapshots, options)
            Wanted(row) ==
                /\ Asked(options.filename, LAMBDA v : row.filename = v)
                /\ Asked(options.after, LAMBDA v : v < row.timestamp)
                /\ Asked(options.before, LAMBDA v : row.timestamp < v)
                /\ Asked(options.sessionId, LAMBDA v : row.session_id = v)
        IN /\ AscendingByTimestamp(result)
           /\ \A i \in DOMAIN result : Wanted(result[i])
           /\ \A i \in DOMAIN snapshots :
                 Wanted(snapshots[i]) =>
                     Occurrences(result, snapshots[i]) = Occurrences(snapshots, snapshots[i])

\* C15 witness: three rows, the first saved with a later timestamp than the
\* second; the query without filters returns them re-ordered, a query by file,
\* session and before bound returns one row, and a query with an after bound
\* returns two.
C15_Witness ==
    /\ Len(snapshots) = 3
    /\ snapshots[1].timestamp > snapshots[2].timestamp
    /\ \E options \in SnapshotQueryOptions :
          /\ options.filename = NotGiven /\ options.sessionId = NotGiven
          /\ options.after = NotGiven /\ options.before = NotGiven
          /\ Len(getSnapshots(snapshots, options)) = 3
          /\ getSnapshots(snapshots, options)[1] = snapshots[2]
    /\ \E options \in SnapshotQueryOptions :
          /\ options.filename # NotGiven
          /\ options.sessionId # NotGiven
          /\ options.before # NotGiven
          /\ Len(getSnapshots(snapshots, options)) = 1
    /\ \E options \in SnapshotQueryOptions :
          /\ options.after # NotGiven
          /\ Len(getSnapshots(snapshots, options)) = 2

\* C11: no step (a further snapshot saved, a session ended, a flag saved, the
\* analyzer run, the chain verified with either result) modifies, re-orders
\* or deletes a stored snapshot row: the rows stored before the step are the
\* first rows after it, unchanged.
C11_StoredSnapshotsKept ==
    [][/\ Len(snapshots') >= Len(snapshots)
       /\ \A i \in DOMAIN snapshots : snapshots'[i] = snapshots[i]]_vars

\* C11 witness: the chain of two stored rows was found broken, a session was
\* ended and a reviewed flag was saved.
C11_Witness ==
    /\ Len(snapshots) = 2
    /\ chainReport = "broken"
    /\ ~verifyHashChain
    /\ flags # << >>
    /\ \E k \in DOMAIN sessions : sessions[k].ended_at # EmptyString

\* C16: saving a flag leaves one row per flag id, the row of the saved id
\* holding the values saved last and the rows of the other ids unchanged, and
\* a step that changes the flags table changes neither the snapshots nor the
\* results of verifyHashChain and getSnapshots.
FlagIds(table) == {table[k].id : k \in DOMAIN table}

C16_FlagUpsertLeavesSnapshots ==
    [][flags' # flags =>
          /\ Len(flags') = Cardinality(FlagIds(flags'))
          /\ FlagIds(flags) \subseteq FlagIds(flags')
          /\ Cardinality(FlagIds(flags') \ FlagIds(flags)) <= 1
          /\ \E id \in FlagIds(flags') :
                /\ flags'[Len(flags')].id = id
                /\ flags'[Len(flags')] \in {reviewPanel'.flags[k] : k \in DOMAIN reviewPanel'.flags}
                /\ \A k \in DOMAIN flags :
                      flags[k].id # id => \E j \in DOMAIN flags' : flags'[j] = flags[k]
          /\ snapshots' = snapshots
          /\ verifyHashChain' = verifyHashChain
          /\ getSnapshots(snapshots', NoFilters) = getSnapshots(snapshots, NoFilters)]_vars

\* C16 witness: a flag that had been saved with an explanation was saved again
\* as dismissed: the table holds the one row.
C16_Witness ==
    /\ Len(flags) = 1
    /\ flags[1].status = "dismissed"
    /\ flags[1].studentContext = "note"
    /\ snapshots # << >>

\* C17: detect follows the ordered rule, the first match winning: no range is
\* typing; more than one range is refactor whatever the sizes; one range
\* inserting at least the threshold is paste, also when it removes text; one
\* range removing at least 30 characters and inserting none is delete;
\* anything else is typing.
C17_DetectOrderedRule ==
    classified # NoDetection =>
        LET ranges == Len(classified.changes)
            inserted == classified.changes[1].text
            removed == classified.changes[1].rangeLength
            answer == classified.changeType
        IN /\ ranges = 0 => answer = "typing"
           /\ ranges > 1 => answer = "refactor"
           /\ ranges = 1 /\ inserted >= classified.threshold => answer = "paste"
           /\ ranges = 1 /\ inserted < classified.threshold /\ removed >= 30 /\ inserted = 0
                 => answer = "delete"
           /\ ranges = 1 /\ inserted < classified.threshold /\ ~(removed >= 30 /\ inserted = 0)
                 => answer = "typing"

\* C17 witness: two ranges that each insert a paste-sized text were classified
\* as a refactor.
C17_Witness ==
    /\ classified # NoDetection
    /\ Len(classified.changes) = 2
    /\ classified.changes[1].text >= classified.threshold
    /\ classified.changes[1].rangeLength >= 30
    /\ classified.changeType = "refactor"

\* C18: the detector of a running engine holds the threshold T configured
\* now, and an edit of one range the engine accepts is recorded as a paste
\* when it inserts at least T characters and as typing when it inserts fewer:
\* T characters are a paste, T - 1 are typing, at the default threshold and
\* after every change of the setting, the engine not being restarted.
AcceptedEdit(filePath) == Len(editLog'[filePath]) = Len(editLog[filePath]) + 1

C18_PasteBoundaryAtConfiguredThreshold ==
    [][/\ isRunning' => pasteThreshold' = configured'.pasteThreshold
       /\ \A f \in Files :
             AcceptedEdit(f) =>
                LET edit == editLog'[f][Len(editLog'[f])]
                IN /\ edit.charsAdded >= configured.pasteThreshold
                         => edit.changeType = "paste"
                   /\ edit.charsAdded < configured.pasteThreshold
                         => edit.changeType = "typing"]_vars

\* C18 witness: during one recording, started under the default threshold,
\* the threshold was lowered, and an insert of as many characters as the new
\* threshold was recorded as a paste after an insert of 49 characters had been
\* recorded as typing.
C18_Witness ==
    /\ isRunning
    /\ Len(sessions) = 1
    /\ configured.pasteThreshold = OtherPasteThreshold
    /\ Len(editLog["a.ts"]) = 2
    /\ editLog["a.ts"][1].charsAdded = DEFAULT_PASTE_CHAR_THRESHOLD - 1
    /\ editLog["a.ts"][1].changeType = "typing"
    /\ editLog["a.ts"][2].charsAdded = OtherPasteThreshold
    /\ editLog["a.ts"][2].changeType = "paste"

\* C19: an event the recorder accepts is merged into the last buffered event
\* exactly when both are of the same file, both have one range that removes
\* nothing, both are on the same line, the new insert starts where the text
\* buffered so far ends, the new text is one character and the new event is
\* at most 500 ms after the buffered one. On a merge the buffer keeps its
\* length and the buffered text becomes the concatenation; otherwise the new
\* event is appended.
Accepted == buffer' # buffer /\ buffer' # << >>

Mergeable(lastEvent, newEvent) ==
    /\ lastEvent.filename = newEvent.filename
    /\ Len(lastEvent.changes) = 1
    /\ Len(newEvent.changes) = 1
    /\ lastEvent.changes[1].rangeLength = 0
    /\ newEvent.changes[1].rangeLength = 0
    /\ lastEvent.changes[1].rangeStart.line = newEvent.changes[1].rangeStart.line
    /\ newEvent.changes[1].rangeStart.character =
          lastEvent.changes[1].rangeStart.character + Len(lastEvent.changes[1].text)
    /\ Len(newEvent.changes[1].text) = 1
    /\ newEvent.timestamp - lastEvent.timestamp <= 500

C19_CoalescedIffConditions ==
    [][Accepted =>
          LET newEvent == replayLog'.event
              last == Len(buffer)
          IN IF buffer # << >> /\ Mergeable(buffer[last], newEvent)
             THEN /\ Len(buffer') = Len(buffer)
                  /\ \A k \in 1..(last - 1) : buffer'[k] = buffer[k]
                  /\ buffer'[last].changes[1].text =
                        buffer[last].changes[1].text \o newEvent.changes[1].text
                  /\ buffer'[last].timestamp = buffer[last].timestamp
             ELSE buffer' = Append(buffer, newEvent)]_vars

\* C19 witness: two characters typed 100 ms apart are one buffered event, and
\* the character typed next to them 600 ms after the first is another.
C19_Witness ==
    /\ Len(buffer) = 2
    /\ buffer[1].timestamp = 0
    /\ buffer[1].changes = <<ReplayChange(Position(0, 0), Position(0, 1), <<"a", "a">>, 0)>>
    /\ buffer[2].timestamp = 600
    /\ buffer[2].changes = Typed(0, 2)
    /\ buffer[2].filename = buffer[1].filename

\* C20: paste and multi-character events are never coalesced: when an
\* accepted event is merged into the last buffered event, neither the new
\* event nor the event the buffered one was recorded as inserts more than one
\* character.
MultiCharacter(event) ==
    \E k \in DOMAIN event.changes : Len(event.changes[k].text) > 1

C20_MultiCharacterNeverCoalesced ==
    [][Accepted /\ Len(buffer') = Len(buffer) =>
          /\ ~MultiCharacter(replayLog'.event)
          /\ ~MultiCharacter(replayLog.recorded[Len(buffer)])]_vars

\* C21: the flush timer is armed exactly while the recorder records; a step
\* hands events to the store only by handing over the whole buffer, in buffer
\* order, and emptying it; no other step drops a buffered event; stopping
\* hands over what is buffered, and a stopped recorder holds no event.
C21_BufferFlushedOnce ==
    [][/\ flushHandle' = isRecording'
       /\ ~isRecording' => buffer' = << >>
       /\ (replayEvents' # replayEvents \/ Len(buffer') < Len(buffer)) =>
             /\ replayEvents' = replayEvents \o buffer
             /\ buffer' = << >>
       /\ (isRecording /\ ~isRecording') => replayEvents' = replayEvents \o buffer]_vars

\* C21 witness: a character flushed by the timer and the character typed next
\* to it 100 ms later, flushed by stop, are two events of the store in the
\* order they were buffered, and nothing is buffered.
C21_Witness ==
    /\ ~isRecording
    /\ buffer = << >>
    /\ Len(replayEvents) = 2
    /\ replayEvents[1].timestamp = 0
    /\ replayEvents[2].timestamp = 100
    /\ replayEvents[1].changes = Typed(0, 0)
    /\ replayEvents[2].changes = Typed(0, 1)

\* The flags of a category the last analysis returned for a list of snapshot
\* ids, and the snapshots of a file in the analysed sequence.
FlagsFor(category, severity, snapshotIds) ==
    {k \in DOMAIN analysis.flags :
        /\ analysis.flags[k].category = category
        /\ analysis.flags[k].severity = severity
        /\ analysis.flags[k].snapshotIds = snapshotIds}

FlagsOf(category) ==
    {k \in DOMAIN analysis.flags : analysis.flags[k].category = category}

SnapshotsOf(filename) ==
    {i \in DOMAIN analysis.snapshots : analysis.snapshots[i].filename = filename}

Analysed == analysis.outcome = "returned" /\ analysis.snapshots # << >>

\* C22 (as stated): a file whose only snapshot is a paste of 42 lines gets both
\* a medium large_paste flag and a high fully_formed_code flag for it.
C22_PasteOf42LinesGivesBothFlags ==
    Analysed =>
        \A i \in DOMAIN analysis.snapshots :
            LET snapshot == analysis.snapshots[i]
            IN (/\ snapshot.change_type = "paste"
                /\ snapshot.lines_added = 42
                /\ SnapshotsOf(snapshot.filename) = {i})
               => /\ FlagsFor("large_paste", "medium", <<snapshot.id>>) # {}
                  /\ FlagsFor("fully_formed_code", "high", <<snapshot.id>>) # {}

\* C22 (amended): a file whose only snapshot is a paste of 42 lines gets one
\* medium large_paste flag for it and no fully_formed_code flag, 42 lines
\* being fewer than the 50 that rule asks for.
C22_PasteOf42LinesGivesLargePasteOnly ==
    Analysed =>
        \A i \in DOMAIN analysis.snapshots :
            LET snapshot == analysis.snapshots[i]
            IN (/\ snapshot.change_type = "paste"
                /\ snapshot.lines_added = 42
                /\ SnapshotsOf(snapshot.filename) = {i})
               => /\ Cardinality(FlagsFor("large_paste", "medium", <<snapshot.id>>)) = 1
                  /\ \A k \in FlagsOf("fully_formed_code") :
                        analysis.flags[k].snapshotIds # <<snapshot.id>>

\* C22 witness: the only snapshot of a.ts, a paste of 42 lines, was analysed
\* together with snapshots of another file and has its large_paste flag.
C22_Witness ==
    /\ Analysed
    /\ Len(analysis.snapshots) = 2
    /\ analysis.snapshots[1].filename = "a.ts"
    /\ analysis.snapshots[1].change_type = "paste"
    /\ analysis.snapshots[1].lines_added = 42
    /\ analysis.snapshots[2].filename = "b.ts"
    /\ FlagsFor("large_paste", "medium", <<1>>) # {}

\* C23: every snapshot that is a paste of at least 30 lines has exactly one
\* large_paste flag, of medium severity, referencing only that snapshot; no
\* other snapshot has one, and there are no other large_paste flags.
C23_LargePastePerPasteSnapshot ==
    Analysed =>
        /\ \A i \in DOMAIN analysis.snapshots :
              LET snapshot == analysis.snapshots[i]
              IN Cardinality(FlagsFor("large_paste", "medium", <<snapshot.id>>)) =
                    IF snapshot.change_type = "paste" /\ snapshot.lines_added >= 30
                    THEN 1 ELSE 0
        /\ \A k \in FlagsOf("large_paste") :
              \E i \in DOMAIN analysis.snapshots :
                  k \in FlagsFor("large_paste", "medium", <<analysis.snapshots[i].id>>)

\* C23 witness: a paste of 29 lines, a typed change of 100 lines and a paste
\* of 30 lines were analysed; the one large_paste flag is that of the last.
C23_Witness ==
    /\ Analysed
    /\ Len(analysis.snapshots) = 3
    /\ analysis.snapshots[1].change_type = "paste"
    /\ analysis.snapshots[1].lines_added = 29
    /\ analysis.snapshots[2].change_type = "typing"
    /\ analysis.snapshots[2].lines_added = 100
    /\ analysis.snapshots[3].change_type = "paste"
    /\ analysis.snapshots[3].lines_added = 30
    /\ Cardinality(FlagsOf("large_paste")) = 1
    /\ FlagsFor("large_paste", "medium", <<3>>) # {}

\* C24: a snapshot has a fully_formed_code flag, of high severity and
\* referencing only it, exactly when it adds at least 50 lines and no later
\* snapshot of the sequence has its filename; it has at most one, and there
\* are no other fully_formed_code flags.
C24_FullyFormedIffNoLaterEdit ==
    Analysed =>
        /\ \A i \in DOMAIN analysis.snapshots :
              LET snapshot == analysis.snapshots[i]
              IN Cardinality(FlagsFor("fully_formed_code", "high", <<snapshot.id>>)) =
                    IF /\ snapshot.lines_added >= 50
                       /\ \A j \in SnapshotsOf(snapshot.filename) : j <= i
                    THEN 1 ELSE 0
        /\ \A k \in FlagsOf("fully_formed_code") :
              \E i \in DOMAIN analysis.snapshots :
                  k \in FlagsFor("fully_formed_code", "high", <<analysis.snapshots[i].id>>)

\* C24 witness: 50 lines added to a.ts and followed by a small edit of a.ts
\* are not flagged, while the 50 lines added to b.ts after an edit of a.ts
\* and not followed by anything are.
C24_Witness ==
    /\ Analysed
    /\ Len(analysis.snapshots) = 3
    /\ analysis.snapshots[1].filename = "a.ts"
    /\ analysis.snapshots[1].lines_added = 50
    /\ analysis.snapshots[2].filename = "b.ts"
    /\ analysis.snapshots[2].lines_added = 50
    /\ analysis.snapshots[3].filename = "a.ts"
    /\ analysis.snapshots[3].lines_added = 1
    /\ FlagsFor("fully_formed_code", "high", <<1>>) = {}
    /\ FlagsFor("fully_formed_code", "high", <<2>>) # {}

\* The snapshots of the analysed sequence from index i on whose timestamp is
\* at most span after that of snapshot i, their ids in order and the sum of a
\* column over them.
Within(i, span) ==
    {j \in DOMAIN analysis.snapshots :
        /\ j >= i
        /\ analysis.snapshots[j].timestamp <= analysis.snapshots[i].timestamp + span}

IdsOf(indices) ==
    LET kept == SelectSeq(analysis.snapshots, LAMBDA snapshot :
                    \E j \in indices : analysis.snapshots[j].id = snapshot.id)
    IN [k \in DOMAIN kept |-> kept[k].id]

RECURSIVE Total(_, _)
Total(indices, column) ==
    IF indices = {} THEN 0
    ELSE LET j == CHOOSE x \in indices : TRUE
         IN analysis.snapshots[j][column] + Total(indices \ {j}, column)

\* C25: for every snapshot i that comes at least 2 hours after its
\* predecessor there is a long_gap flag of medium severity referencing exactly
\* the snapshots from i up to 30 minutes later if and only if these add at
\* least 30 lines in total, and it is the only one; there are as many
\* long_gap flags as such snapshots, so a smaller gap gives none.
LongGapStarts ==
    {i \in DOMAIN analysis.snapshots :
        /\ i > 1
        /\ analysis.snapshots[i].timestamp - analysis.snapshots[i - 1].timestamp
              >= 2 * 60 * 60 * 1000
        /\ Total(Within(i, 30 * 60 * 1000), "lines_added") >= 30}

C25_LongGapWindowSum ==
    Analysed =>
        /\ \A i \in DOMAIN analysis.snapshots :
              Cardinality(FlagsFor("long_gap", "medium", IdsOf(Within(i, 30 * 60 * 1000)))) =
                 IF i \in LongGapStarts THEN 1 ELSE 0
        /\ Cardinality(FlagsOf("long_gap")) = Cardinality(LongGapStarts)

\* C25 witness: after a pause of exactly 2 hours two snapshots of 15 lines
\* each, exactly 30 minutes apart, were flagged together, the snapshot before
\* the pause not being referenced.
C25_Witness ==
    /\ Analysed
    /\ Len(analysis.snapshots) = 3
    /\ analysis.snapshots[2].timestamp - analysis.snapshots[1].timestamp = LONG_GAP_MS
    /\ analysis.snapshots[3].timestamp - analysis.snapshots[2].timestamp = POST_GAP_WINDOW_MS
    /\ analysis.snapshots[2].lines_added = 15
    /\ analysis.snapshots[3].lines_added = 15
    /\ FlagsFor("long_gap", "medium", <<2, 3>>) # {}

\* C26: a file has exactly one no_debugging flag, of low severity, when its
\* snapshots add at least 100 lines in total and remove none, and no
\* no_debugging flag otherwise.
NoDebuggingFlags(filename) ==
    {k \in FlagsOf("no_debugging") : analysis.flags[k].filename = filename}

C26_NoDebuggingPerFile ==
    Analysed =>
        \A filename \in Files :
            /\ Cardinality(NoDebuggingFlags(filename)) =
                  IF /\ Total(SnapshotsOf(filename), "lines_added") >= 100
                     /\ Total(SnapshotsOf(filename), "lines_removed") = 0
                  THEN 1 ELSE 0
            /\ \A k \in NoDebuggingFlags(filename) : analysis.flags[k].severity = "low"

\* C26 witness: a.ts received 100 and then 50 lines and lost none: 150 lines
\* in two snapshots, one no_debugging flag; b.ts, which lost a line, has none.
C26_Witness ==
    /\ Analysed
    /\ Len(analysis.snapshots) = 3
    /\ Cardinality(SnapshotsOf("a.ts")) = 2
    /\ Total(SnapshotsOf("a.ts"), "lines_added") = 150
    /\ Total(SnapshotsOf("b.ts"), "lines_removed") = 1
    /\ Cardinality(NoDebuggingFlags("a.ts")) = 1
    /\ NoDebuggingFlags("b.ts") = {}

\* C27: a non-empty sequence has exactly one rapid_completion flag, of low
\* severity and referencing all the snapshots, when the last snapshot is at
\* most 1 hour after the first and the snapshots add at least 200 lines in
\* total, a single snapshot of 200 lines included, and none otherwise.
C27_RapidCompletionIffFastAndLarge ==
    Analysed =>
        LET all == DOMAIN analysis.snapshots
            last == analysis.snapshots[Len(analysis.snapshots)]
        IN /\ Cardinality(FlagsOf("rapid_completion")) =
                 IF /\ last.timestamp - analysis.snapshots[1].timestamp <= 60 * 60 * 1000
                    /\ Total(all, "lines_added") >= 200
                 THEN 1 ELSE 0
           /\ FlagsOf("rapid_completion") = FlagsFor("rapid_completion", "low", IdsOf(all))

\* C28: for every snapshot i, the snapshots from i up to 5 minutes later have
\* an unusual_typing_speed flag of low severity referencing them if and only
\* if there are at least two of them and their change_size sums to at least
\* 200 characters per minute over the 5 minutes; snapshot i gives at most one
\* such flag, and there are no other flags of the category.
SpeedStarts ==
    {i \in DOMAIN analysis.snapshots :
        /\ Cardinality(Within(i, 5 * 60 * 1000)) >= 2
        /\ Total(Within(i, 5 * 60 * 1000), "change_size") >= 200 * 5}

C28_UnusualSpeedPerWindow ==
    Analysed =>
        /\ \A i \in DOMAIN analysis.snapshots :
              Cardinality({k \in FlagsFor("unusual_typing_speed", "low",
                                          IdsOf(Within(i, 5 * 60 * 1000))) :
                              analysis.flags[k].timestamp = analysis.snapshots[i].timestamp}) =
                 IF i \in SpeedStarts THEN 1 ELSE 0
        /\ Cardinality(FlagsOf("unusual_typing_speed")) = Cardinality(SpeedStarts)

\* C28 witness: two snapshots of 500 characters exactly 5 minutes apart are
\* one flagged window; the second, with 1000 characters more 5 minutes and
\* 1 ms later out of reach, starts a window of one snapshot and is not flagged.
C28_Witness ==
    /\ Analysed
    /\ Len(analysis.snapshots) = 3
    /\ analysis.snapshots[1].change_size = 500
    /\ analysis.snapshots[2].change_size = 500
    /\ analysis.snapshots[3].change_size = 1000
    /\ analysis.snapshots[2].timestamp - analysis.snapshots[1].timestamp = SPEED_WINDOW_MS
    /\ analysis.snapshots[3].timestamp - analysis.snapshots[2].timestamp = SPEED_WINDOW_MS + 1
    /\ FlagsFor("unusual_typing_speed", "low", <<1, 2>>) # {}
    /\ Cardinality(FlagsOf("unusual_typing_speed")) = 1

\* C30: the analyzer returns whatever the snapshots lack: when a snapshot has
\* no diff the analysis still returns, the style rule gives no flag for the
\* file of that snapshot and the other rules give theirs (each large paste
\* has its flag).
C30_AnalyzerNeverThrows ==
    analysis.outcome # "none" =>
        /\ analysis.outcome = "returned"
        /\ \A i \in DOMAIN analysis.snapshots :
              LET snapshot == analysis.snapshots[i]
              IN /\ snapshot.diff = NotGiven =>
                       \A k \in FlagsOf("style_inconsistency") :
                           analysis.flags[k].filename # snapshot.filename
                 /\ (snapshot.change_type = "paste" /\ snapshot.lines_added >= 30) =>
                       FlagsFor("large_paste", "medium", <<snapshot.id>>) # {}

\* C31: a file with at least 2 snapshots has exactly one style_inconsistency
\* flag, of medium severity and referencing all its snapshots, when the first
\* ceil(n/2) of its snapshots and the rest are both classified and differently
\* (a half is classified with at least 5 matches on its added lines: camelCase
\* above 70% camel matches, snake_case below 30%), and none otherwise; a file
\* with a single snapshot has none.
RECURSIVE Matches(_, _)
Matches(indices, pattern) ==
    IF indices = {} THEN 0
    ELSE LET j == CHOOSE x \in indices : TRUE
             lines == CHOOSE text \in analysis.snapshots[j].diff : TRUE
         IN SumSeq([n \in DOMAIN lines |->
                      IF lines[n].prefix = "+" THEN lines[n][pattern] ELSE 0])
            + Matches(indices \ {j}, pattern)

Classification(indices) ==
    LET camel == Matches(indices, "camel")
        all == camel + Matches(indices, "snake")
    IN IF all >= 5 /\ 10 * camel > 7 * all THEN "camelCase"
       ELSE IF all >= 5 /\ 10 * camel < 3 * all THEN "snake_case"
       ELSE "unclassified"

EarlyHalf(filename) ==
    {i \in SnapshotsOf(filename) :
        2 * Cardinality({j \in SnapshotsOf(filename) : j < i})
            < Cardinality(SnapshotsOf(filename))}

StyleFlags(filename) ==
    {k \in FlagsOf("style_inconsistency") : analysis.flags[k].filename = filename}

C31_StyleInconsistencyPerFile ==
    Analysed =>
        \A filename \in Files :
            LET early == Classification(EarlyHalf(filename))
                late == Classification(SnapshotsOf(filename) \ EarlyHalf(filename))
            IN /\ Cardinality(StyleFlags(filename)) =
                     IF /\ Cardinality(SnapshotsOf(filename)) >= 2
                        /\ early # "unclassified"
                        /\ late # "unclassified"
                        /\ early # late
                     THEN 1 ELSE 0
               /\ \A k \in StyleFlags(filename) :
                     /\ analysis.flags[k].severity = "medium"
                     /\ analysis.flags[k].snapshotIds = IdsOf(SnapshotsOf(filename))

\* C31 witness: three snapshots of a.ts with 4 camelCase matches, 1 camelCase
\* match and 5 snake_case matches: the first two are the earlier half
\* (camelCase only when counted together), the third is snake_case, and the
\* file has its flag over the three snapshots.
C31_Witness ==
    /\ Analysed
    /\ Cardinality(SnapshotsOf("a.ts")) = 3
    /\ Matches({1}, "camel") = 4 /\ Matches({1}, "snake") = 0
    /\ Matches({2}, "camel") = 1 /\ Matches({2}, "snake") = 0
    /\ Matches({3}, "camel") = 0 /\ Matches({3}, "snake") = 5
    /\ FlagsFor("style_inconsistency", "medium", <<1, 2, 3>>) # {}

\* C32: while the review panel shows the flags of an analysis of the
\* snapshot sequence, a flag for which a review is saved (the same category
\* at the same point of the same sequence) is shown with the saved student
\* context and status.
C32_ReviewedFlagShownWithSavedReview ==
    reviewPanel.open =>
        \A k \in DOMAIN reviewPanel.flags : \A j \in DOMAIN flags :
            (/\ flags[j].category = reviewPanel.flags[k].category
             /\ flags[j].timestamp = reviewPanel.flags[k].timestamp) =>
                /\ reviewPanel.flags[k].studentContext = flags[j].studentContext
                /\ reviewPanel.flags[k].status = flags[j].status

\* C33: when a keystroke is merged into the last buffered event, the player
\* shows the same document after the merged event as after the event before
\* the merge followed by the keystroke, whatever document it starts from: the
\* document the player has rebuilt at that point, or a line with text to the
\* right of the insertion point.
PlayerDocuments ==
    {<< << >> >>, << <<"x", "y", "z">> >>, << <<"x">>, <<"y", "z">> >>}

C33_CoalescedPlaysAsOriginals ==
    [][(/\ buffer # << >>
        /\ Len(buffer') = Len(buffer)
        /\ buffer' # buffer
        /\ replayLog'.merged) =>
            \A docLines \in PlayerDocuments
                    \cup {seekTo(replayEvents \o buffer, Len(replayEvents) + Len(buffer) - 1)} :
                applyEvent(docLines, buffer'[Len(buffer')])
                    = applyEvent(applyEvent(docLines, buffer[Len(buffer)]),
                                 replayLog'.event)]_vars

\* C34: with at most one recording session, every announced snapshot stored
\* and no stored row altered, verifyHashChain returns true.
C34_SingleSessionChainVerifies ==
    (/\ Len(sessions) <= 1
     /\ tamperedRow = 0
     /\ snapshots = emitted) => verifyHashChain

\* C35: whatever the number of recording sessions written to the store, with
\* every announced snapshot stored and no stored row altered, verifyHashChain
\* returns true.
C35_ChainVerifiesAcrossSessions ==
    (tamperedRow = 0 /\ snapshots = emitted) => verifyHashChain

\* C36: after a tick of an engine that is not paused, and after stop, the
\* pending map is empty, whether or not a snapshot was emitted for each of its
\* entries; and a pending entry always stands for edits made since the last
\* such flush only: the files with an entry are the files edited since.
C36_FlushDiscardsPending ==
    /\ (flushLog.caller = "tick" /\ ~isPaused) => pendingChanges = << >>
    /\ flushLog.caller = "stop" => pendingChanges = << >>
    /\ PendingFiles(pendingChanges) = {f \in Files : editLog[f] # << >>}

\* C36 witness: a tick of a running engine met a pending entry whose content
\* had not changed and another whose document was closed; no snapshot was
\* emitted and the pending map is empty.
C36_Witness ==
    /\ flushLog.caller = "tick"
    /\ isRunning /\ ~isPaused
    /\ \E f, g \in Files :
          /\ StepsOf(f, "unchanged") # {}
          /\ StepsOf(g, "closed") # {}
    /\ \A k \in DOMAIN flushLog.steps : flushLog.steps[k].outcome # "emitted"
    /\ pendingChanges = << >>

\* C37: at every point paused implies running and the flush timer is armed
\* exactly when the engine is running, and no step taken by a stopped engine
\* emits or stores a snapshot.
C37_TimerArmedIffRunning ==
    /\ []((isPaused => isRunning) /\ (intervalHandle <=> isRunning))
    /\ [][~isRunning => (emitted' = emitted /\ snapshots' = snapshots)]_vars

C39_WindowFromFirstKeystroke ==
    [][Accepted =>
          LET newEvent == replayLog'.event
              last == Len(buffer)
          IN /\ \A k \in DOMAIN buffer' :
                   /\ buffer'[k].timestamp = replayLog'.recorded[k].timestamp
                   /\ k \in DOMAIN buffer => buffer'[k].timestamp = buffer[k].timestamp
             /\ replayLog'.merged =>
                   /\ Len(buffer') = Len(buffer)
                   /\ newEvent.timestamp - buffer'[last].timestamp <= COALESCE_WINDOW_MS
             /\ (/\ buffer # << >>
                 /\ newEvent.timestamp - buffer[last].timestamp > COALESCE_WINDOW_MS) =>
                   buffer' = Append(buffer, newEvent)]_vars

\* C39 witness: a character typed 100 ms after the first one has just been
\* merged into the event of the first, which keeps the timestamp 0.
C39_Witness ==
    /\ replayLog.merged
    /\ replayLog.event.timestamp = 100
    /\ Len(buffer) = 1
    /\ buffer[1].timestamp = 0
    /\ buffer[1].changes[1].text = <<"a", "a">>

\* C40: a file has at most one fully_formed_code flag, and the flag
\* references the last snapshot of the file in the sequence and nothing else.
FullyFormedFlags(filename) ==
    {k \in FlagsOf("fully_formed_code") : analysis.flags[k].filename = filename}

C40_OneFullyFormedFlagPerFile ==
    Analysed =>
        \A filename \in Files :
            /\ Cardinality(FullyFormedFlags(filename)) <= 1
            /\ \A k \in FullyFormedFlags(filename) :
                  \E i \in SnapshotsOf(filename) :
                      /\ \A j \in SnapshotsOf(filename) : j <= i
                      /\ analysis.flags[k].snapshotIds = <<analysis.snapshots[i].id>>

\* C40 witness: a.ts received at least 50 lines twice; it has one
\* fully_formed_code flag, for the second of the two snapshots.
C40_Witness ==
    /\ Analysed
    /\ SnapshotsOf("a.ts") = {1, 2}
    /\ analysis.snapshots[1].lines_added >= FULLY_FORMED_LINE_THRESHOLD
    /\ analysis.snapshots[2].lines_added >= FULLY_FORMED_LINE_THRESHOLD
    /\ Cardinality(FullyFormedFlags("a.ts")) = 1
    /\ FlagsFor("fully_formed_code", "high", <<2>>) # {}

====
